---- MODULE Spec2Model ----
(***************************************************************************)
(* Diff_to_HTML.py: the rendering of unified-diff text into the rows of a  *)
(* two-column (Old Version / New Version) HTML table.                      *)
(*                                                                         *)
(* Text is a sequence of one-character strings.  The report file is the    *)
(* sequence `out` of the items written to it, in order; what is printed on *)
(* the console is the sequence `console`.                                  *)
(***************************************************************************)
EXTENDS Integers, Sequences, FiniteSets, TLC

(***************************************************************************)
(* Bounds of the inputs.                                                   *)
(***************************************************************************)
\* longest diff (in lines) drawn over the whole line catalogue
MaxLines == 2
\* longest diff (in lines) drawn over hunk headers, '+' lines and '-' lines
MaxHunkLines == 5
\* most files in one run
MaxFiles == 2

\* enhanced_git_diff.py: the supported files of the repository, the names a
\* selection file lists, the ticks of the clock in a second, the last tick
\* and the number of calls looked at for create_html_report
MaxChanged == 2

MaxSelected == 2

TicksPerSecond == 2

MaxClock == 4

MaxCalls == 3

\* the lines of a diff text given to the statistics
MaxStatsLines == 5

\* the lines of the listing of changed files Diff_to_HTML.py is given
MaxListed == 2

\* enhanced_git_diff.py line 711: the seconds show_file_selector waits
timeout == 300

(***************************************************************************)
(* Text helpers: Python's str methods on the alphabet of the model.        *)
(***************************************************************************)

\* str.startswith(p)
StartsWith(s, p) ==
    /\ Len(s) >= Len(p)
    /\ SubSeq(s, 1, Len(p)) = p

\* the position of the first c in s, 0 when there is none
FirstIndex(s, c) ==
    IF \E i \in 1..Len(s) : s[i] = c
    THEN CHOOSE i \in 1..Len(s) : s[i] = c /\ \A j \in 1..(i - 1) : s[j] # c
    ELSE 0

\* str.splitlines(): the only line boundary of the alphabet is "\n"; the text
\* after the last boundary is a line only when it is not empty
RECURSIVE splitlines(_)
splitlines(s) ==
    IF s = <<>> THEN <<>>
    ELSE LET p == FirstIndex(s, "\n")
         IN  IF p = 0 THEN <<s>>
             ELSE <<SubSeq(s, 1, p - 1)>> \o splitlines(SubSeq(s, p + 1, Len(s)))

\* str.split(c) with an explicit separator: always at least one field
RECURSIVE split(_, _)
split(s, c) ==
    LET p == FirstIndex(s, c)
    IN  IF p = 0 THEN <<s>>
        ELSE <<SubSeq(s, 1, p - 1)>> \o split(SubSeq(s, p + 1, Len(s)), c)

\* s[1:]
DropFirst(s) == SubSeq(s, 2, Len(s))

IsSpace(c) == c \in {" ", "\n"}

\* str.strip()
RECURSIVE lstrip(_)
lstrip(s) == IF s # <<>> /\ IsSpace(s[1]) THEN lstrip(DropFirst(s)) ELSE s

RECURSIVE rstrip(_)
rstrip(s) ==
    IF s # <<>> /\ IsSpace(s[Len(s)]) THEN rstrip(SubSeq(s, 1, Len(s) - 1)) ELSE s

strip(s) == rstrip(lstrip(s))

Digit == {"0", "1", "2", "3", "4", "5", "6", "7", "8", "9"}

DigitVal(c) ==
    CASE c = "0" -> 0 [] c = "1" -> 1 [] c = "2" -> 2 [] c = "3" -> 3
      [] c = "4" -> 4 [] c = "5" -> 5 [] c = "6" -> 6 [] c = "7" -> 7
      [] c = "8" -> 8 [] c = "9" -> 9

RECURSIVE DigitsVal(_)
DigitsVal(s) ==
    IF s = <<>> THEN 0
    ELSE 10 * DigitsVal(SubSeq(s, 1, Len(s) - 1)) + DigitVal(s[Len(s)])

AllDigits(s) == s # <<>> /\ \A i \in 1..Len(s) : s[i] \in Digit

\* int(s): surrounding white space, one optional sign, decimal digits;
\* anything else is a ValueError.  [ok, val]
int(s) ==
    LET t == strip(s)
        signed == t # <<>> /\ t[1] \in {"+", "-"}
        d == IF signed THEN DropFirst(t) ELSE t
    IN  IF AllDigits(d)
        THEN [ok |-> TRUE,
              val |-> IF signed /\ t[1] = "-" THEN 0 - DigitsVal(d) ELSE DigitsVal(d)]
        ELSE [ok |-> FALSE, val |-> 0]

\* html.escape(s) of a str, quote=True
EscapeChar(c) ==
    CASE c = "&" -> <<"&", "a", "m", "p", ";">>
      [] c = "<" -> <<"&", "l", "t", ";">>
      [] c = ">" -> <<"&", "g", "t", ";">>
      [] c = "\"" -> <<"&", "q", "u", "o", "t", ";">>
      [] c = "'" -> <<"&", "#", "x", "2", "7", ";">>
      [] OTHER -> <<c>>

RECURSIVE escape(_)
escape(s) == IF s = <<>> THEN <<>> ELSE EscapeChar(s[1]) \o escape(DropFirst(s))

\* html.escape(n) of an int: str.replace is looked up on the int, which has
\* no such attribute, so the call raises AttributeError for every n
escape_int_raises(n) == n \in Int

(***************************************************************************)
(* extract_function_names.  The pattern, in order: start of line, "@@", any *)
(* characters (greedy), "@@", any white space, the keyword def or          *)
(* function, then -- the pattern being a raw string in which the white     *)
(* space class is written with two backslashes -- one literal backslash    *)
(* and any number of the letter s, and last the name: a letter or          *)
(* underscore followed by letters, digits and underscores.                 *)
(***************************************************************************)
Letter ==
    {"a", "b", "c", "d", "e", "f", "g", "h", "i", "j", "k", "l", "m", "n", "o",
     "p", "q", "r", "s", "t", "u", "v", "w", "x", "y", "z",
     "A", "B", "C", "D", "E", "F", "G", "H", "I", "J", "K", "L", "M", "N", "O",
     "P", "Q", "R", "S", "T", "U", "V", "W", "X", "Y", "Z"}

IdentStart == Letter \cup {"_"}

IdentChar == IdentStart \cup Digit

\* the longest prefix of s made of characters of S
RECURSIVE TakeWhile(_, _)
TakeWhile(s, S) ==
    IF s # <<>> /\ s[1] \in S THEN <<s[1]>> \o TakeWhile(DropFirst(s), S) ELSE <<>>

\* the match of the pattern's part after the second "@@" at the start of t:
\* <<group 2>>, or <<>> when there is no match
MatchTrailer(t) ==
    LET u == TakeWhile(t, {" "})
        v == SubSeq(t, Len(u) + 1, Len(t))
        kw == IF StartsWith(v, <<"d", "e", "f">>) THEN 3
              ELSE IF StartsWith(v, <<"f", "u", "n", "c", "t", "i", "o", "n">>) THEN 8
              ELSE 0
        w == SubSeq(v, kw + 1, Len(v))
        r == DropFirst(w)
        m == Len(TakeWhile(r, {"s"}))
    IN  IF kw = 0 \/ w = <<>> \/ w[1] # "\\" THEN <<>>
        ELSE IF m < Len(r) /\ r[m + 1] \in IdentStart
             THEN <<TakeWhile(SubSeq(r, m + 1, Len(r)), IdentChar)>>
        ELSE IF m >= 1 THEN <<TakeWhile(SubSeq(r, m, Len(r)), IdentChar)>>
        ELSE <<>>

\* pattern.match(line): ".*" is greedy, so the last "@@" after which the rest
\* of the pattern matches is the one taken
PatternMatch(line) ==
    LET K == {k \in 3..(Len(line) - 1) :
                /\ line[k] = "@" /\ line[k + 1] = "@"
                /\ MatchTrailer(SubSeq(line, k + 2, Len(line))) # <<>>}
    IN  IF StartsWith(line, <<"@", "@">>) /\ K # {}
        THEN LET k == CHOOSE k \in K : \A j \in K : j <= k
             IN  MatchTrailer(SubSeq(line, k + 2, Len(line)))
        ELSE <<>>

extract_function_names(diff) ==
    LET ls == splitlines(diff)
    IN  {PatternMatch(ls[i])[1] : i \in {j \in 1..Len(ls) : PatternMatch(ls[j]) # <<>>}}

(***************************************************************************)
(* The inputs: diff text as `git diff -U0` writes it, one line per         *)
(* catalogue entry, each ended by "\n".                                    *)
(***************************************************************************)

\* str(n), n >= 0
RECURSIVE FormatInt(_)
FormatInt(n) ==
    LET d == <<"0", "1", "2", "3", "4", "5", "6", "7", "8", "9">>[(n % 10) + 1]
    IN  IF n < 10 THEN <<d>> ELSE FormatInt(n \div 10) \o <<d>>

\* a count field: absent (<<>>) or ",n" (<<n>>)
FormatCount(c) == IF c = <<>> THEN <<>> ELSE <<",">> \o FormatInt(c[1])

\* the hunk header line "@@ -a[,b] +c[,d] @@<trailer>"
FormatHeader(h) ==
    <<"@", "@", " ", "-">> \o FormatInt(h.oldStart) \o FormatCount(h.oldCount)
    \o <<" ", "+">> \o FormatInt(h.newStart) \o FormatCount(h.newCount)
    \o <<" ", "@", "@">> \o h.trailer

\* the hunk headers of the catalogue: "@@ -3 +7,2 @@" (no old count) and
\* "@@ -10,2 +12 @@ def f" (no new count, a trailer)
HeaderNoOldCount ==
    [oldStart |-> 3, oldCount |-> <<>>, newStart |-> 7, newCount |-> <<2>>,
     trailer |-> <<>>]

HeaderNoNewCount ==
    [oldStart |-> 10, oldCount |-> <<2>>, newStart |-> 12, newCount |-> <<>>,
     trailer |-> <<" ", "d", "e", "f", " ", "f">>]

HunkHeaders == {HeaderNoOldCount, HeaderNoNewCount}

HeaderLines == {FormatHeader(h) : h \in HunkHeaders}

\* "@@ -x,2 +10,2 @@"
BadHeaderLine ==
    <<"@", "@", " ", "-", "x", ",", "2", " ", "+", "1", "0", ",", "2", " ", "@", "@">>

\* "+a": an added line
PlusLine == <<"+", "a">>

\* "-<": a removed line whose text is "<"
MinusLine == <<"-", "<">>

\* "--- c": a removed line whose text is "-- c"
MinusDashLine == <<"-", "-", "-", " ", "c">>

\* "+++ d": an added line whose text is "++ d"
PlusPlusLine == <<"+", "+", "+", " ", "d">>

\* " e": a context line
ContextLine == <<" ", "e">>

\* "": a blank line
BlankLine == <<>>

\* "diff --git" and "index 1": lines of the preamble
DiffGitLine == <<"d", "i", "f", "f", " ", "-", "-", "g", "i", "t">>

IndexLine == <<"i", "n", "d", "e", "x", " ", "1">>

Catalogue ==
    HeaderLines \cup
    {BadHeaderLine, PlusLine, MinusLine, MinusDashLine, PlusPlusLine, ContextLine,
     BlankLine, DiffGitLine, IndexLine}

HunkCatalogue == HeaderLines \cup {PlusLine, MinusLine}

SeqsUpTo(S, n) == UNION {[1..k -> S] : k \in 0..n}

\* the text whose lines are ls, each ended by "\n"
RECURSIVE JoinLines(_)
JoinLines(ls) ==
    IF ls = <<>> THEN <<>> ELSE ls[1] \o <<"\n">> \o JoinLines(Tail(ls))

DiffTexts ==
    {JoinLines(ls) :
        ls \in SeqsUpTo(Catalogue, MaxLines) \cup SeqsUpTo(HunkCatalogue, MaxHunkLines)}

\* the entry __main__ appends for a modified file (line 233)
ModifiedFile(name, text) ==
    [diff |-> text, file_name |-> name, file_status |-> "", file_content |-> <<>>]

\* the entry __main__ appends for a file of status A or D (lines 227, 230)
WholeFile(name, status, content) ==
    [diff |-> <<>>, file_name |-> name, file_status |-> status, file_content |-> content]

\* "x\n y \n": two lines, the second with white space around it
SampleContent == <<"x", "\n", " ", "y", " ", "\n">>

SampleFiles ==
    {WholeFile(<<"n", ".", "c">>, "A", SampleContent),
     WholeFile(<<"o", ".", "c">>, "D", SampleContent),
     ModifiedFile(<<"m", ".", "c">>,
                  JoinLines(<<FormatHeader(HeaderNoOldCount), PlusLine, MinusLine>>)),
     ModifiedFile(<<"k", ".", "c">>,
                  JoinLines(<<FormatHeader(HeaderNoNewCount), ContextLine>>)),
     ModifiedFile(<<"b", ".", "c">>,
                  JoinLines(<<FormatHeader(HeaderNoOldCount), PlusLine, BadHeaderLine>>))}

\* "@@ -0,0 +1,5 @@": the header git writes for a file that was empty before
HeaderPureInsertion ==
    [oldStart |-> 0, oldCount |-> <<0>>, newStart |-> 1, newCount |-> <<5>>,
     trailer |-> <<>>]

\* the diff of a pure insertion: that header and five added lines
PureInsertionText ==
    JoinLines(<<FormatHeader(HeaderPureInsertion),
                PlusLine, PlusLine, PlusLine, PlusLine, PlusLine>>)

\* the argument `diffs` of write_diff_to_html: one modified file with any diff
\* text or with the pure insertion, or up to MaxFiles of the sample files
Inputs ==
    {<<ModifiedFile(<<"f", ".", "c">>, t)>> : t \in DiffTexts \cup {PureInsertionText}}
    \cup SeqsUpTo(SampleFiles, MaxFiles)

(***************************************************************************)
(* The state of a run of write_diff_to_html.                               *)
(***************************************************************************)
VARIABLES
    oneArgument,       \* the module's global mode flag
    diffs,             \* the argument: the list of per-file entries
    pc,                \* "open", "files" (head of the loop over diffs),
                       \* "lines" (head of the loop over lines), "done";
                       \* in __main__ "main" before the call, "exit" after
                       \* the closing message
    fileIdx,           \* the position in diffs of diff_data
    lines,             \* the filtered lines of the current modified file
    lineIdx,           \* the position in lines of line
    difference_count,
    function_names,
    old_line_num,
    new_line_num,
    out,               \* what has been written to output_file
    console            \* what has been printed

vars ==
    <<oneArgument, diffs, pc, fileIdx, lines, lineIdx, difference_count,
      function_names, old_line_num, new_line_num, out, console>>

locals == <<lines, lineIdx, difference_count, function_names, old_line_num, new_line_num>>

(***************************************************************************)
(* The state of a run of enhanced_git_diff.py: main, show_file_selector    *)
(* and HTMLReportGenerator, with the files they read and write.            *)
(***************************************************************************)
VARIABLES
    mpc,               \* the position in main: "main", "info", "files", "open",
                       \* "poll", "selected", "build", "report", "done";
                       \* "idle" when enhanced_git_diff.py is not the program
                       \* run, "caller" when create_html_report is called by
                       \* a client of the class
    actual_commit2,    \* <<>> (None) or <<c>>: the second commit of the call
    commit1_info,      \* <<>> (None) or <<info>>
    commit2_info,      \* <<>> (None) or <<info>>
    changed_files,     \* the list get_changed_files returned
    selected_files,    \* main's selected_files
    main_diff,         \* main's diff_data: the diff texts joined, file by file
    now,               \* the clock (time.time(), datetime.now()), in ticks
    start_time,        \* show_file_selector's start_time
    selection,         \* ~/Downloads/selected_files.json: <<>> (no such
                       \* file) or <<content>>
    disk,              \* the paths that exist in and above output_dir, the
                       \* report directories apart
    reports,           \* the report directories of output_dir: timestamp |->
                       \* what diff_report.html in that directory holds
    calls,             \* the calls of create_html_report so far: the
                       \* directory each wrote into and what it wrote
    printed            \* what enhanced_git_diff.py has printed

evars ==
    <<mpc, actual_commit2, commit1_info, commit2_info, changed_files,
      selected_files, main_diff, now, start_time, selection, disk, reports,
      calls, printed>>

\* enhanced_git_diff.py is not run
EnhancedIdle ==
    /\ mpc = "idle"
    /\ actual_commit2 = <<>>
    /\ commit1_info = <<>>
    /\ commit2_info = <<>>
    /\ changed_files = <<>>
    /\ selected_files = <<>>
    /\ main_diff = <<>>
    /\ now = 0
    /\ start_time = 0
    /\ selection = <<>>
    /\ disk = {}
    /\ reports = <<>>
    /\ calls = <<>>
    /\ printed = <<>>

(***************************************************************************)
(* The state of a call of _generate_stats_html and of get_file_stats of    *)
(* enhanced_git_diff.py on one diff text.                                  *)
(***************************************************************************)
VARIABLES
    combined_diff,     \* the argument diff_data (diff_content): <<>> before
                       \* the call, <<text>> in it
    stats,             \* <<>> or <<the totals _generate_stats_html shows>>
    file_stats         \* <<>> or <<the dictionary get_file_stats returns>>

svars == <<combined_diff, stats, file_stats>>

\* neither function is called
StatsIdle ==
    /\ combined_diff = <<>>
    /\ stats = <<>>
    /\ file_stats = <<>>

(***************************************************************************)
(* The state of a run of run_tests of test_environment.py.                 *)
(***************************************************************************)
VARIABLES
    ran,               \* the checks called so far, in the order of the
                       \* calls, each with what it did
    passed,
    returned           \* <<>> or <<the value run_tests returned>>

tvars == <<ran, passed, returned>>

\* run_tests is not run
TestsIdle ==
    /\ ran = <<>>
    /\ passed = 0
    /\ returned = <<>>

(***************************************************************************)
(* The state of the main program of Diff_to_HTML.py up to its call of      *)
(* write_diff_to_html, with the git commands it has run.                   *)
(***************************************************************************)
VARIABLES
    commit1,
    commit2,           \* <<>> (None) or <<the second commit>>
    name_status,       \* the Diff_to_HTML changed_files: the lines of git's
                       \* --name-status listing, as (status, file_name)
    line_no,           \* the position in name_status of the loop at line 222
    requests           \* the git commands run by the loop, in order

dvars == <<commit1, commit2, name_status, line_no, requests>>

\* the main program of Diff_to_HTML.py is not run
MainIdle ==
    /\ commit1 = <<>>
    /\ commit2 = <<>>
    /\ name_status = <<>>
    /\ line_no = 0
    /\ requests = <<>>

xvars == <<svars, tvars, dvars>>

OthersIdle == StatsIdle /\ TestsIdle /\ MainIdle

Init ==
    /\ oneArgument \in BOOLEAN
    /\ diffs \in Inputs
    /\ pc = "open"
    /\ fileIdx = 0
    /\ lines = <<>>
    /\ lineIdx = 0
    /\ difference_count = 0
    /\ function_names = {}
    /\ old_line_num = 0
    /\ new_line_num = 0
    /\ out = <<>>
    /\ console = <<>>
    /\ EnhancedIdle
    /\ OthersIdle

(***************************************************************************)
(* write_diff_to_html, one action per step of its loops.  The two branches *)
(* on oneArgument each hold their own code for a modified file (lines      *)
(* 77-108 here, lines 123-154 further down) and the same two blocks, under *)
(* swapped statuses, for a file of status A or D (lines 65-76 and          *)
(* 111-122).                                                               *)
(***************************************************************************)
diff_data == diffs[fileIdx]

\* an exception anywhere in the with block: the file is closed with what was
\* written so far, the handler prints the exception, the function returns
Raise(exc, arg) ==
    /\ pc' = "done"
    /\ console' = Append(console, [tag |-> "error", exc |-> exc, arg |-> arg])

\* lines 45-54: the file is opened and the page's head written
OpenReport ==
    /\ pc = "open"
    /\ out' = Append(out, [tag |-> "head", file |-> 0])
    /\ pc' = "files"
    /\ fileIdx' = 1
    /\ UNCHANGED <<oneArgument, diffs, locals, console>>

\* line 62
SectionTitle == [tag |-> "h2", file |-> fileIdx, text |-> escape(diff_data.file_name)]

\* lines 68-69 (74-75, 114-115, 120-121): one numbered line per line of content
ContentLines(mark, cls) ==
    LET ls == splitlines(diff_data.file_content)
    IN  [i \in 1..Len(ls) |->
            [tag |-> "line", file |-> fileIdx, no |-> i, mark |-> mark,
             text |-> escape(strip(ls[i])), cls |-> cls]]

\* lines 65-70 and 111-116: the "File added" block
FileAddedBlock ==
    /\ pc = "files"
    /\ fileIdx <= Len(diffs)
    /\ \/ oneArgument /\ diff_data.file_status = "A"
       \/ ~oneArgument /\ diff_data.file_status = "D"
    /\ out' = out
              \o <<SectionTitle,
                   [tag |-> "block", file |-> fileIdx, title |-> "File added",
                    column |-> "New Version", cls |-> "added"]>>
              \o ContentLines("+", "added")
              \o <<[tag |-> "end_table", file |-> fileIdx]>>
    /\ fileIdx' = fileIdx + 1
    /\ UNCHANGED <<oneArgument, diffs, pc, locals, console>>

\* lines 71-76 and 117-122: the "File deleted" block
FileDeletedBlock ==
    /\ pc = "files"
    /\ fileIdx <= Len(diffs)
    /\ \/ oneArgument /\ diff_data.file_status = "D"
       \/ ~oneArgument /\ diff_data.file_status = "A"
    /\ out' = out
              \o <<SectionTitle,
                   [tag |-> "block", file |-> fileIdx, title |-> "File deleted",
                    column |-> "Old Version", cls |-> "removed"]>>
              \o ContentLines("-", "removed")
              \o <<[tag |-> "end_table", file |-> fileIdx]>>
    /\ fileIdx' = fileIdx + 1
    /\ UNCHANGED <<oneArgument, diffs, pc, locals, console>>

\* line 79: the lines the filter drops
IsPreamble(line) ==
    \/ StartsWith(line, <<"d", "i", "f", "f", " ", "-", "-", "g", "i", "t">>)
    \/ StartsWith(line, <<"i", "n", "d", "e", "x", " ">>)
    \/ StartsWith(line, <<"-", "-", "-", " ">>)
    \/ StartsWith(line, <<"+", "+", "+", " ">>)

KeepLine(line) == ~IsPreamble(line)

\* lines 78-79 with the text cut at every "\n" by str.split: the empty text
\* is then one empty line
FilteredLines_SplitAtNewline(diff) == SelectSeq(split(diff, "\n"), KeepLine)

\* lines 78-79
FilteredLines(diff) == SelectSeq(splitlines(diff), KeepLine)

\* line 80
CountDifferences(ls) ==
    Cardinality({i \in 1..Len(ls) :
                    StartsWith(ls[i], <<"-">>) \/ StartsWith(ls[i], <<"+">>)})

\* lines 77-89: the else branch up to the loop over lines
BeginModified ==
    /\ pc = "files"
    /\ fileIdx <= Len(diffs)
    /\ diff_data.file_status \notin {"A", "D"}
    /\ lines' = FilteredLines(diff_data.diff)
    /\ difference_count' = CountDifferences(lines')
    /\ function_names' = extract_function_names(diff_data.diff)
    /\ out' = out
              \o <<SectionTitle,
                   [tag |-> "count", file |-> fileIdx, n |-> difference_count'],
                   [tag |-> "funcs", file |-> fileIdx, names |-> function_names'],
                   [tag |-> "table", file |-> fileIdx]>>
    /\ old_line_num' = 0
    /\ new_line_num' = 0
    /\ lineIdx' = 1
    /\ pc' = "lines"
    /\ UNCHANGED <<oneArgument, diffs, fileIdx, console>>

line == lines[lineIdx]

InLoop == pc = "lines" /\ lineIdx <= Len(lines)

IsHeader(l) == StartsWith(l, <<"@", "@">>)

\* parts[k].split(',')[0][1:]  (k counted from 0, as in the code)
StartField(parts, k) == DropFirst(split(parts[k + 1], <<",">>[1])[1])

\* OldStartField reading the header's '+' field
OldStartField_FromNewField(parts) == StartField(parts, 2)

\* line 94: the text handed to int() for old_line_num
OldStartField(parts) == StartField(parts, 1)

\* line 95: the text handed to int() for new_line_num
NewStartField(parts) == StartField(parts, 2)

\* line 96: the boundary marker
Boundary == [tag |-> "hr", file |-> fileIdx]

\* lines 92-96 with the marker written between hunks only: not at the first
\* header of a file
HunkHeaderLine_MarkerBetweenHunks ==
    /\ InLoop
    /\ IsHeader(line)
    /\ LET parts == split(line, " ")
       IN  IF Len(parts) < 2
           THEN /\ Raise("IndexError", <<>>)
                /\ UNCHANGED <<old_line_num, new_line_num, out, lineIdx>>
           ELSE IF ~int(OldStartField(parts)).ok
           THEN /\ Raise("ValueError", OldStartField(parts))
                /\ UNCHANGED <<old_line_num, new_line_num, out, lineIdx>>
           ELSE IF Len(parts) < 3
           THEN /\ old_line_num' = int(OldStartField(parts)).val
                /\ Raise("IndexError", <<>>)
                /\ UNCHANGED <<new_line_num, out, lineIdx>>
           ELSE IF ~int(NewStartField(parts)).ok
           THEN /\ old_line_num' = int(OldStartField(parts)).val
                /\ Raise("ValueError", NewStartField(parts))
                /\ UNCHANGED <<new_line_num, out, lineIdx>>
           ELSE /\ old_line_num' = int(OldStartField(parts)).val
                /\ new_line_num' = int(NewStartField(parts)).val
                /\ out' = IF \E i \in 1..(lineIdx - 1) : IsHeader(lines[i])
                          THEN Append(out, Boundary)
                          ELSE out
                /\ lineIdx' = lineIdx + 1
                /\ UNCHANGED <<pc, console>>
    /\ UNCHANGED <<oneArgument, diffs, fileIdx, lines, difference_count, function_names>>

\* lines 92-96
HunkHeaderLine ==
    /\ InLoop
    /\ IsHeader(line)
    /\ LET parts == split(line, " ")
       IN  IF Len(parts) < 2
           THEN /\ Raise("IndexError", <<>>)
                /\ UNCHANGED <<old_line_num, new_line_num, out, lineIdx>>
           ELSE IF ~int(OldStartField(parts)).ok
           THEN /\ Raise("ValueError", OldStartField(parts))
                /\ UNCHANGED <<old_line_num, new_line_num, out, lineIdx>>
           ELSE IF Len(parts) < 3
           THEN /\ old_line_num' = int(OldStartField(parts)).val
                /\ Raise("IndexError", <<>>)
                /\ UNCHANGED <<new_line_num, out, lineIdx>>
           ELSE IF ~int(NewStartField(parts)).ok
           THEN /\ old_line_num' = int(OldStartField(parts)).val
                /\ Raise("ValueError", NewStartField(parts))
                /\ UNCHANGED <<new_line_num, out, lineIdx>>
           ELSE /\ old_line_num' = int(OldStartField(parts)).val
                /\ new_line_num' = int(NewStartField(parts)).val
                /\ out' = Append(out, Boundary)
                /\ lineIdx' = lineIdx + 1
                /\ UNCHANGED <<pc, console>>
    /\ UNCHANGED <<oneArgument, diffs, fileIdx, lines, difference_count, function_names>>

\* one cell of a table row: the number, the sign written after it, the text
Cell(no, mark, text, cls) == [no |-> no, mark |-> mark, text |-> text, cls |-> cls]

\* a table row: at most one cell in the Old Version column (the first td) and
\* at most one in the New Version column (the second td)
Row(old, new) == [tag |-> "row", file |-> fileIdx, old |-> old, new |-> new]

\* line 98: the row written for a line with leading '+'
PlusRow == Row(<<Cell(old_line_num, "-", escape(DropFirst(line)), "removed")>>, <<>>)

\* line 101: the row written for a line with leading '-'
MinusRow == Row(<<>>, <<Cell(new_line_num, "+", escape(DropFirst(line)), "added")>>)

\* PlusPrefixedLine with the row paired positionally: both counters advance
PlusPrefixedLine_AdvancesBoth ==
    /\ InLoop
    /\ ~IsHeader(line)
    /\ StartsWith(line, <<"+">>)
    /\ out' = Append(out, PlusRow)
    /\ old_line_num' = old_line_num + 1
    /\ new_line_num' = new_line_num + 1
    /\ lineIdx' = lineIdx + 1
    /\ UNCHANGED <<oneArgument, diffs, pc, fileIdx, lines, difference_count,
                   function_names, console>>

\* lines 97-99
PlusPrefixedLine ==
    /\ InLoop
    /\ ~IsHeader(line)
    /\ StartsWith(line, <<"+">>)
    /\ out' = Append(out, PlusRow)
    /\ old_line_num' = old_line_num + 1
    /\ lineIdx' = lineIdx + 1
    /\ UNCHANGED <<oneArgument, diffs, pc, fileIdx, lines, difference_count,
                   function_names, new_line_num, console>>

\* lines 100-102
MinusPrefixedLine ==
    /\ InLoop
    /\ ~IsHeader(line)
    /\ ~StartsWith(line, <<"+">>)
    /\ StartsWith(line, <<"-">>)
    /\ out' = Append(out, MinusRow)
    /\ new_line_num' = new_line_num + 1
    /\ lineIdx' = lineIdx + 1
    /\ UNCHANGED <<oneArgument, diffs, pc, fileIdx, lines, difference_count,
                   function_names, old_line_num, console>>

\* lines 103-106: the row's text is built before it is written, and
\* building it calls html.escape on the int new_line_num, which raises
OtherLine ==
    /\ InLoop
    /\ ~IsHeader(line)
    /\ ~StartsWith(line, <<"+">>)
    /\ ~StartsWith(line, <<"-">>)
    /\ IF escape_int_raises(new_line_num)
       THEN /\ Raise("AttributeError", <<>>)
            /\ UNCHANGED <<out, old_line_num, new_line_num, lineIdx>>
       ELSE /\ out' = Append(out, Row(<<Cell(old_line_num, "", escape(line), "")>>,
                                      <<Cell(new_line_num, "", escape(line), "")>>))
            /\ old_line_num' = old_line_num + 1
            /\ new_line_num' = new_line_num + 1
            /\ lineIdx' = lineIdx + 1
            /\ UNCHANGED <<pc, console>>
    /\ UNCHANGED <<oneArgument, diffs, fileIdx, lines, difference_count, function_names>>

\* line 108: the loop over lines is over
EndModified ==
    /\ pc = "lines"
    /\ lineIdx > Len(lines)
    /\ out' = Append(out, [tag |-> "end_table", file |-> fileIdx])
    /\ fileIdx' = fileIdx + 1
    /\ pc' = "files"
    /\ UNCHANGED <<oneArgument, diffs, locals, console>>

(***************************************************************************)
(* The else branch of the two-commit mode, lines 123-154: the code of      *)
(* lines 77-108 written a second time.                                     *)
(***************************************************************************)
\* line 125: the lines the filter drops
IsPreambleTwo(text) ==
    \/ StartsWith(text, <<"d", "i", "f", "f", " ", "-", "-", "g", "i", "t">>)
    \/ StartsWith(text, <<"i", "n", "d", "e", "x", " ">>)
    \/ StartsWith(text, <<"-", "-", "-", " ">>)
    \/ StartsWith(text, <<"+", "+", "+", " ">>)

\* line 125
KeepLineTwo(text) == ~IsPreambleTwo(text)

\* lines 124-125
FilteredLinesTwo(diff) == SelectSeq(splitlines(diff), KeepLineTwo)

\* line 126
CountDifferencesTwo(ls) ==
    Cardinality({i \in 1..Len(ls) :
                    StartsWith(ls[i], <<"-">>) \/ StartsWith(ls[i], <<"+">>)})

\* lines 123-135: the else branch up to the loop over lines
BeginModifiedTwo ==
    /\ pc = "files"
    /\ fileIdx <= Len(diffs)
    /\ diff_data.file_status \notin {"A", "D"}
    /\ lines' = FilteredLinesTwo(diff_data.diff)
    /\ difference_count' = CountDifferencesTwo(lines')
    /\ function_names' = extract_function_names(diff_data.diff)
    /\ out' = out
              \o <<SectionTitle,
                   [tag |-> "count", file |-> fileIdx, n |-> difference_count'],
                   [tag |-> "funcs", file |-> fileIdx, names |-> function_names'],
                   [tag |-> "table", file |-> fileIdx]>>
    /\ old_line_num' = 0
    /\ new_line_num' = 0
    /\ lineIdx' = 1
    /\ pc' = "lines"
    /\ UNCHANGED <<oneArgument, diffs, fileIdx, console>>

\* line 140: the text handed to int() for old_line_num
OldStartFieldTwo(parts) == StartField(parts, 1)

\* line 141: the text handed to int() for new_line_num
NewStartFieldTwo(parts) == StartField(parts, 2)

\* line 142: the boundary marker
BoundaryTwo == [tag |-> "hr", file |-> fileIdx]

\* lines 138-142
HunkHeaderLineTwo ==
    /\ InLoop
    /\ IsHeader(line)
    /\ LET parts == split(line, " ")
       IN  IF Len(parts) < 2
           THEN /\ Raise("IndexError", <<>>)
                /\ UNCHANGED <<old_line_num, new_line_num, out, lineIdx>>
           ELSE IF ~int(OldStartFieldTwo(parts)).ok
           THEN /\ Raise("ValueError", OldStartFieldTwo(parts))
                /\ UNCHANGED <<old_line_num, new_line_num, out, lineIdx>>
           ELSE IF Len(parts) < 3
           THEN /\ old_line_num' = int(OldStartFieldTwo(parts)).val
                /\ Raise("IndexError", <<>>)
                /\ UNCHANGED <<new_line_num, out, lineIdx>>
           ELSE IF ~int(NewStartFieldTwo(parts)).ok
           THEN /\ old_line_num' = int(OldStartFieldTwo(parts)).val
                /\ Raise("ValueError", NewStartFieldTwo(parts))
                /\ UNCHANGED <<new_line_num, out, lineIdx>>
           ELSE /\ old_line_num' = int(OldStartFieldTwo(parts)).val
                /\ new_line_num' = int(NewStartFieldTwo(parts)).val
                /\ out' = Append(out, BoundaryTwo)
                /\ lineIdx' = lineIdx + 1
                /\ UNCHANGED <<pc, console>>
    /\ UNCHANGED <<oneArgument, diffs, fileIdx, lines, difference_count, function_names>>

\* line 144 with the number taken from the other counter
PlusRowTwo_NewCounter ==
    Row(<<Cell(new_line_num, "-", escape(DropFirst(line)), "removed")>>, <<>>)

\* line 144: the row written for a line with leading '+'
PlusRowTwo == Row(<<Cell(old_line_num, "-", escape(DropFirst(line)), "removed")>>, <<>>)

\* line 147: the row written for a line with leading '-'
MinusRowTwo == Row(<<>>, <<Cell(new_line_num, "+", escape(DropFirst(line)), "added")>>)

\* lines 143-145
PlusPrefixedLineTwo ==
    /\ InLoop
    /\ ~IsHeader(line)
    /\ StartsWith(line, <<"+">>)
    /\ out' = Append(out, PlusRowTwo)
    /\ old_line_num' = old_line_num + 1
    /\ lineIdx' = lineIdx + 1
    /\ UNCHANGED <<oneArgument, diffs, pc, fileIdx, lines, difference_count,
                   function_names, new_line_num, console>>

\* lines 146-148
MinusPrefixedLineTwo ==
    /\ InLoop
    /\ ~IsHeader(line)
    /\ ~StartsWith(line, <<"+">>)
    /\ StartsWith(line, <<"-">>)
    /\ out' = Append(out, MinusRowTwo)
    /\ new_line_num' = new_line_num + 1
    /\ lineIdx' = lineIdx + 1
    /\ UNCHANGED <<oneArgument, diffs, pc, fileIdx, lines, difference_count,
                   function_names, old_line_num, console>>

\* lines 149-152: html.escape is called on the int new_line_num, as at line 105
OtherLineTwo ==
    /\ InLoop
    /\ ~IsHeader(line)
    /\ ~StartsWith(line, <<"+">>)
    /\ ~StartsWith(line, <<"-">>)
    /\ IF escape_int_raises(new_line_num)
       THEN /\ Raise("AttributeError", <<>>)
            /\ UNCHANGED <<out, old_line_num, new_line_num, lineIdx>>
       ELSE /\ out' = Append(out, Row(<<Cell(old_line_num, "", escape(line), "")>>,
                                      <<Cell(new_line_num, "", escape(line), "")>>))
            /\ old_line_num' = old_line_num + 1
            /\ new_line_num' = new_line_num + 1
            /\ lineIdx' = lineIdx + 1
            /\ UNCHANGED <<pc, console>>
    /\ UNCHANGED <<oneArgument, diffs, fileIdx, lines, difference_count, function_names>>

\* line 154: the loop over lines is over
EndModifiedTwo ==
    /\ pc = "lines"
    /\ lineIdx > Len(lines)
    /\ out' = Append(out, [tag |-> "end_table", file |-> fileIdx])
    /\ fileIdx' = fileIdx + 1
    /\ pc' = "files"
    /\ UNCHANGED <<oneArgument, diffs, locals, console>>

\* line 156: the loop over diffs is over
CloseReport ==
    /\ pc = "files"
    /\ fileIdx > Len(diffs)
    /\ out' = Append(out, [tag |-> "tail", file |-> 0])
    /\ pc' = "done"
    /\ UNCHANGED <<oneArgument, diffs, fileIdx, locals, console>>

\* __main__, line 237: write_diff_to_html has returned, the closing message
\* is printed and the program ends
FinalMessage ==
    /\ pc = "done"
    /\ console' = Append(console, [tag |-> "written", exc |-> "", arg |-> <<>>])
    /\ pc' = "exit"
    /\ UNCHANGED <<oneArgument, diffs, fileIdx, locals, out>>

\* lines 64 and 110: oneArgument chooses the branch that renders a file
Next ==
    \/ OpenReport /\ UNCHANGED <<evars, xvars>>
    \/ FileAddedBlock /\ UNCHANGED <<evars, xvars>>
    \/ FileDeletedBlock /\ UNCHANGED <<evars, xvars>>
    \/ oneArgument /\ BeginModified /\ UNCHANGED <<evars, xvars>>
    \/ oneArgument /\ HunkHeaderLine /\ UNCHANGED <<evars, xvars>>
    \/ oneArgument /\ PlusPrefixedLine /\ UNCHANGED <<evars, xvars>>
    \/ oneArgument /\ MinusPrefixedLine /\ UNCHANGED <<evars, xvars>>
    \/ oneArgument /\ OtherLine /\ UNCHANGED <<evars, xvars>>
    \/ oneArgument /\ EndModified /\ UNCHANGED <<evars, xvars>>
    \/ ~oneArgument /\ BeginModifiedTwo /\ UNCHANGED <<evars, xvars>>
    \/ ~oneArgument /\ HunkHeaderLineTwo /\ UNCHANGED <<evars, xvars>>
    \/ ~oneArgument /\ PlusPrefixedLineTwo /\ UNCHANGED <<evars, xvars>>
    \/ ~oneArgument /\ MinusPrefixedLineTwo /\ UNCHANGED <<evars, xvars>>
    \/ ~oneArgument /\ OtherLineTwo /\ UNCHANGED <<evars, xvars>>
    \/ ~oneArgument /\ EndModifiedTwo /\ UNCHANGED <<evars, xvars>>
    \/ CloseReport /\ UNCHANGED <<evars, xvars>>
    \/ FinalMessage /\ UNCHANGED <<evars, xvars>>

Spec == Init /\ [][Next]_<<vars, evars>>

(***************************************************************************)
(* enhanced_git_diff.py.  The repository and the user are the environment: *)
(* what git answers is chosen in the step that asks, and the selection     *)
(* file is written by the browser while show_file_selector polls, or was   *)
(* left in the Downloads folder before the run.                            *)
(***************************************************************************)

\* the supported files of the repository, named 1, 2, ... in path order
FileNames == 1..MaxChanged

\* the names a selection file can list: those, and the name of a file that
\* is not in the repository
SelectionNames == 1..(MaxChanged + 1)

\* lines 56-77: one entry of the list get_changed_files returns
FileInfo(n) == [status |-> "M", filename |-> n]

\* the entries for the files of S, in the order git lists them
RECURSIVE ListOf(_)
ListOf(S) ==
    IF S = {} THEN <<>>
    ELSE LET n == CHOOSE n \in S : \A m \in S : n <= m
         IN  <<FileInfo(n)>> \o ListOf(S \ {n})

\* lines 56-77: the lists get_changed_files can return
ChangedLists == {ListOf(S) : S \in SUBSET FileNames}

\* the lists of names without repetition, MaxSelected names at most
NameLists ==
    {l \in SeqsUpTo(SelectionNames, MaxSelected) :
        \A i, j \in 1..Len(l) : l[i] = l[j] => i = j}

\* what selected_files.json can hold: text that is not JSON, a JSON array,
\* a JSON object without the key 'selectedFiles', a JSON object with a list
\* of names under that key (selectedFiles: <<>> for no key, <<list>>)
SelectionContents ==
    {[kind |-> "garbage", selectedFiles |-> <<>>],
     [kind |-> "array", selectedFiles |-> <<>>],
     [kind |-> "object", selectedFiles |-> <<>>]}
    \cup {[kind |-> "object", selectedFiles |-> <<l>>] : l \in NameLists}

\* line 710: a selected_files.json of the Downloads folder: its content and
\* when it was last written, before show_file_selector was called or during
\* the call
SavedFile(c, when) ==
    [kind |-> c.kind, selectedFiles |-> c.selectedFiles, saved |-> when]

\* lines 717-720: json.load succeeds and the value has a method get
Readable(c) == c.kind = "object"

\* line 720: selection_data.get('selectedFiles', [])
selected_filenames(c) == IF c.selectedFiles = <<>> THEN <<>> ELSE c.selectedFiles[1]

\* line 723 with the loop turned round: the entries in the order of names
RECURSIVE FilterSelected_InListedOrder(_, _)
FilterSelected_InListedOrder(files, names) ==
    IF names = <<>> THEN <<>>
    ELSE SelectSeq(files, LAMBDA f : f.filename = names[1])
         \o FilterSelected_InListedOrder(files, DropFirst(names))

\* line 723: the entries of files whose filename is among names
RECURSIVE FilterSelected(_, _)
FilterSelected(files, names) ==
    IF files = <<>> THEN <<>>
    ELSE (IF \E i \in 1..Len(names) : names[i] = files[1].filename
          THEN <<files[1]>> ELSE <<>>)
         \o FilterSelected(DropFirst(files), names)

\* line 112: strftime("%Y%m%d_%H%M%S") of the clock: the whole seconds
timestamp(t) == t \div TicksPerSecond

\* lines 112-122: the report directories after a call of create_html_report
\* at clock t: the directory named by the timestamp is made if it is not
\* there, and its diff_report.html is opened for writing
create_html_report(dirs, t, content) ==
    [d \in DOMAIN dirs \cup {timestamp(t)} |->
        IF d = timestamp(t) THEN content ELSE dirs[d]]

\* line 844 with the selector shown for one file too
NeedsSelector_ForOneFile(files) == Len(files) >= 1

\* line 844: the selector is shown for more than one file
NeedsSelector(files) == Len(files) > 1

\* line 713: the loop condition
Waiting == now - start_time < timeout * TicksPerSecond

\* lines 736-740 and 726-730: the selector's page and directory are removed
CleanedUp == disk \ {"temp_selector", "temp_selector/file_selector.html"}

\* write_diff_to_html is not run
RenderIdle ==
    /\ oneArgument = FALSE
    /\ diffs = <<>>
    /\ pc = "idle"
    /\ fileIdx = 0
    /\ lines = <<>>
    /\ lineIdx = 0
    /\ difference_count = 0
    /\ function_names = {}
    /\ old_line_num = 0
    /\ new_line_num = 0
    /\ out = <<>>
    /\ console = <<>>

\* lines 751-795: main is entered with one commit or two and has written
\* to its log beside output_dir; output_dir may exist, and a
\* selected_files.json may lie in the Downloads folder
InitEnhanced ==
    /\ RenderIdle
    /\ OthersIdle
    /\ mpc = "main"
    /\ actual_commit2 \in {<<>>, <<"commit2">>}
    /\ commit1_info = <<>>
    /\ commit2_info = <<>>
    /\ changed_files = <<>>
    /\ selected_files = <<>>
    /\ main_diff = <<>>
    /\ now = 0
    /\ start_time = 0
    /\ selection \in
        {<<>>} \cup {<<SavedFile(c, "before the call")>> : c \in SelectionContents}
    /\ disk \in {{"git_diff_log.txt"}, {"git_diff_log.txt", "output_dir"}}
    /\ reports = <<>>
    /\ calls = <<>>
    /\ printed = <<>>

\* lines 808-812: the diff of the supported files; main returns when it is
\* empty (the text itself is replaced at line 856 before it is used)
GetDiff ==
    /\ mpc = "main"
    /\ \E empty \in BOOLEAN :
        IF empty
        THEN /\ printed' = Append(printed, "no differences")
             /\ mpc' = "done"
        ELSE /\ printed' = printed
             /\ mpc' = "info"
    /\ UNCHANGED <<actual_commit2, commit1_info, commit2_info, changed_files,
                   selected_files, main_diff, now, start_time, selection, disk,
                   reports, calls>>

\* lines 816-826: get_commit_info for each commit given; main returns when
\* one of them is None
GetCommitInfo ==
    /\ mpc = "info"
    /\ \E i1 \in {<<>>, <<"info1">>} :
       \E i2 \in (IF actual_commit2 = <<>> THEN {<<>>} ELSE {<<>>, <<"info2">>}) :
            /\ commit1_info' = i1
            /\ commit2_info' = i2
            /\ IF i1 = <<>>
               THEN /\ printed' = Append(printed, "no info for commit1")
                    /\ mpc' = "done"
               ELSE IF actual_commit2 # <<>> /\ i2 = <<>>
               THEN /\ printed' = Append(printed, "no info for commit2")
                    /\ mpc' = "done"
               ELSE /\ printed' = printed
                    /\ mpc' = "files"
    /\ UNCHANGED <<actual_commit2, changed_files, selected_files, main_diff, now,
                   start_time, selection, disk, reports, calls>>

\* lines 829-845: the changed files of the supported kinds; main returns
\* when there are none, else selected_files starts as all of them
GetChangedFiles ==
    /\ mpc = "files"
    /\ \E files \in ChangedLists :
            /\ changed_files' = files
            /\ IF files = <<>>
               THEN /\ printed' = Append(printed, "no supported files")
                    /\ selected_files' = selected_files
                    /\ mpc' = "done"
               ELSE /\ printed' = printed
                    /\ selected_files' = files
                    /\ mpc' = IF NeedsSelector(files) THEN "open" ELSE "build"
    /\ UNCHANGED <<actual_commit2, commit1_info, commit2_info, main_diff, now,
                   start_time, selection, disk, reports, calls>>

\* lines 475-712: show_file_selector up to its loop: the selector's
\* directory is made in output_dir (with output_dir itself), the page is
\* written and opened, the clock is read
OpenSelector ==
    /\ mpc = "open"
    /\ disk' = disk \cup {"output_dir", "temp_selector",
                          "temp_selector/file_selector.html"}
    /\ printed' = Append(printed, "opening file selector")
    /\ start_time' = now
    /\ mpc' = "poll"
    /\ UNCHANGED <<actual_commit2, commit1_info, commit2_info, changed_files,
                   selected_files, main_diff, now, selection, reports, calls>>

\* lines 713-732: the file is there and is read: the entries listed are
\* returned, the file and the selector's page are removed
ReadSelection ==
    /\ mpc = "poll"
    /\ Waiting
    /\ selection # <<>>
    /\ Readable(selection[1])
    /\ selected_files' = FilterSelected(changed_files, selected_filenames(selection[1]))
    /\ selection' = <<>>
    /\ disk' = CleanedUp
    /\ mpc' = "selected"
    /\ UNCHANGED <<actual_commit2, commit1_info, commit2_info, changed_files,
                   main_diff, now, start_time, reports, calls, printed>>

\* lines 734-736 with the exception passed over: the loop goes on, with the
\* file that cannot be read, to the timeout
UnreadableSelection_KeepsWaiting ==
    /\ mpc = "poll"
    /\ Waiting
    /\ selection # <<>>
    /\ ~Readable(selection[1])
    /\ printed' = Append(printed, "error reading selection file")
    /\ now' = now + TicksPerSecond
    /\ UNCHANGED <<mpc, actual_commit2, commit1_info, commit2_info, changed_files,
                   selected_files, main_diff, start_time, selection, disk,
                   reports, calls>>

\* lines 713-720, 734-749: the file is there and reading it raises: the loop
\* is left, the file stays, all changed files are returned
UnreadableSelection ==
    /\ mpc = "poll"
    /\ Waiting
    /\ selection # <<>>
    /\ ~Readable(selection[1])
    /\ printed' = printed \o <<"error reading selection file", "selection timeout">>
    /\ disk' = CleanedUp
    /\ selected_files' = changed_files
    /\ mpc' = "selected"
    /\ UNCHANGED <<actual_commit2, commit1_info, commit2_info, changed_files,
                   main_diff, now, start_time, selection, reports, calls>>

\* lines 713-714, 738: no file yet: time.sleep(1)
PollSleep ==
    /\ mpc = "poll"
    /\ Waiting
    /\ selection = <<>>
    /\ now' = now + TicksPerSecond
    /\ UNCHANGED <<mpc, actual_commit2, commit1_info, commit2_info, changed_files,
                   selected_files, main_diff, start_time, selection, disk,
                   reports, calls, printed>>

\* lines 713, 740-749: the timeout has passed: all changed files are returned
PollTimeout ==
    /\ mpc = "poll"
    /\ ~Waiting
    /\ printed' = Append(printed, "selection timeout")
    /\ disk' = CleanedUp
    /\ selected_files' = changed_files
    /\ mpc' = "selected"
    /\ UNCHANGED <<actual_commit2, commit1_info, commit2_info, changed_files,
                   main_diff, now, start_time, selection, reports, calls>>

\* lines 848-850: main returns when nothing was selected
CheckSelection ==
    /\ mpc = "selected"
    /\ IF selected_files = <<>>
       THEN /\ printed' = Append(printed, "no files selected")
            /\ mpc' = "done"
       ELSE /\ printed' = printed
            /\ mpc' = "build"
    /\ UNCHANGED <<actual_commit2, commit1_info, commit2_info, changed_files,
                   selected_files, main_diff, now, start_time, selection, disk,
                   reports, calls>>

\* lines 857-860: the diffs of the files of the list that have one, joined in
\* the order of the list; the diff of file n is written n here
RECURSIVE JoinDiffs(_, _)
JoinDiffs(files, withDiff) ==
    IF files = <<>> THEN <<>>
    ELSE (IF files[1].filename \in withDiff THEN <<files[1].filename>> ELSE <<>>)
         \o JoinDiffs(DropFirst(files), withDiff)

\* lines 856-865: the diff of each selected file is asked of git; main
\* returns when all are empty
BuildDiff ==
    /\ mpc = "build"
    /\ \E withDiff \in SUBSET {selected_files[i].filename : i \in 1..Len(selected_files)} :
            /\ main_diff' = JoinDiffs(selected_files, withDiff)
            /\ IF main_diff' = <<>>
               THEN /\ printed' = Append(printed, "no differences in selected files")
                    /\ mpc' = "done"
               ELSE /\ printed' = printed
                    /\ mpc' = "report"
    /\ UNCHANGED <<actual_commit2, commit1_info, commit2_info, changed_files,
                   selected_files, now, start_time, selection, disk, reports, calls>>

\* what a call of create_html_report is given
ReportContent(diff, files) == [diff |-> diff, files |-> files]

\* lines 868-869 with 104-124: output_dir is made, the report is written
CreateReport ==
    /\ mpc = "report"
    /\ disk' = disk \cup {"output_dir"}
    /\ reports' = create_html_report(reports, now, ReportContent(main_diff, selected_files))
    /\ calls' = Append(calls, [dir |-> timestamp(now),
                               content |-> ReportContent(main_diff, selected_files)])
    /\ printed' = Append(printed, "report generated")
    /\ mpc' = "done"
    /\ UNCHANGED <<actual_commit2, commit1_info, commit2_info, changed_files,
                   selected_files, main_diff, now, start_time, selection>>

\* the browser saves the selection while show_file_selector waits
UserSavesSelection ==
    /\ mpc = "poll"
    /\ selection = <<>>
    /\ \E c \in SelectionContents : selection' = <<SavedFile(c, "during the call")>>
    /\ UNCHANGED <<mpc, actual_commit2, commit1_info, commit2_info, changed_files,
                   selected_files, main_diff, now, start_time, disk, reports,
                   calls, printed>>

\* the steps of the program
MainStep ==
    \/ GetDiff /\ UNCHANGED <<vars, xvars>>
    \/ GetCommitInfo /\ UNCHANGED <<vars, xvars>>
    \/ GetChangedFiles /\ UNCHANGED <<vars, xvars>>
    \/ OpenSelector /\ UNCHANGED <<vars, xvars>>
    \/ ReadSelection /\ UNCHANGED <<vars, xvars>>
    \/ UnreadableSelection /\ UNCHANGED <<vars, xvars>>
    \/ PollSleep /\ UNCHANGED <<vars, xvars>>
    \/ PollTimeout /\ UNCHANGED <<vars, xvars>>
    \/ CheckSelection /\ UNCHANGED <<vars, xvars>>
    \/ BuildDiff /\ UNCHANGED <<vars, xvars>>
    \/ CreateReport /\ UNCHANGED <<vars, xvars>>

NextEnhanced ==
    \/ MainStep
    \/ UserSavesSelection /\ UNCHANGED <<vars, xvars>>

\* the process runs on until main returns; nothing makes the user save
SpecEnhanced ==
    /\ InitEnhanced
    /\ [][NextEnhanced]_<<vars, evars>>
    /\ WF_<<vars, evars>>(MainStep)

(***************************************************************************)
(* HTMLReportGenerator used by a caller that makes several reports in the  *)
(* same output_dir, at any moments.                                        *)
(***************************************************************************)

\* what the calls are given: the diffs and the list of one or more files
ReportContents == {ReportContent(JoinDiffs(l, FileNames), l) : l \in ChangedLists \ {<<>>}}

\* lines 104-106: the generator is made, output_dir with it
InitReports ==
    /\ RenderIdle
    /\ OthersIdle
    /\ mpc = "caller"
    /\ actual_commit2 = <<>>
    /\ commit1_info = <<"info1">>
    /\ commit2_info = <<>>
    /\ changed_files = <<>>
    /\ selected_files = <<>>
    /\ main_diff = <<>>
    /\ now = 0
    /\ start_time = 0
    /\ selection = <<>>
    /\ disk = {"output_dir"}
    /\ reports = <<>>
    /\ calls = <<>>
    /\ printed = <<>>

\* the clock goes on by one tick
ClockTick ==
    /\ mpc = "caller"
    /\ now < MaxClock
    /\ now' = now + 1
    /\ UNCHANGED <<mpc, actual_commit2, commit1_info, commit2_info, changed_files,
                   selected_files, main_diff, start_time, selection, disk,
                   reports, calls, printed>>

\* lines 108-124: one call of create_html_report
CallCreateReport ==
    /\ mpc = "caller"
    /\ Len(calls) < MaxCalls
    /\ \E content \in ReportContents :
            /\ reports' = create_html_report(reports, now, content)
            /\ calls' = Append(calls, [dir |-> timestamp(now), content |-> content])
    /\ UNCHANGED <<mpc, actual_commit2, commit1_info, commit2_info, changed_files,
                   selected_files, main_diff, now, start_time, selection, disk,
                   printed>>

NextReports ==
    \/ ClockTick /\ UNCHANGED <<vars, xvars>>
    \/ CallCreateReport /\ UNCHANGED <<vars, xvars>>

SpecReports == InitReports /\ [][NextReports]_<<vars, evars>>

(***************************************************************************)
(* The statistics of enhanced_git_diff.py: _generate_stats_html, which the *)
(* report shows, and get_file_stats, each called on one diff text.         *)
(***************************************************************************)

\* the lines a diff text of the statistics is made of: the first line of a
\* file's section, its two file header lines, a hunk header, an added and a
\* removed line
StatsCatalogue ==
    {DiffGitLine, MinusDashLine, PlusPlusLine, FormatHeader(HeaderNoOldCount),
     PlusLine, MinusLine}

\* len(s.split(sep)) for a separator of any length: the occurrences of sep
\* are found from the left, none overlapping another
RECURSIVE SplitCount(_, _)
SplitCount(s, sep) ==
    IF Len(s) < Len(sep) THEN 1
    ELSE IF SubSeq(s, 1, Len(sep)) = sep
         THEN 1 + SplitCount(SubSeq(s, Len(sep) + 1, Len(s)), sep)
         ELSE SplitCount(Tail(s), sep)

\* lines 451-452
CountedAddition(l) == StartsWith(l, <<"+">>) /\ ~StartsWith(l, <<"+", "+", "+">>)

\* lines 453-454
CountedDeletion(l) ==
    /\ ~CountedAddition(l)
    /\ StartsWith(l, <<"-">>)
    /\ ~StartsWith(l, <<"-", "-", "-">>)

\* lines 446-454: the three totals the statistics block shows
total_stats(diff_text) ==
    LET ls == split(diff_text, "\n")
    IN  [files |-> IF diff_text # <<>> THEN SplitCount(diff_text, DiffGitLine) - 1 ELSE 0,
         additions |-> Cardinality({i \in 1..Len(ls) : CountedAddition(ls[i])}),
         deletions |-> Cardinality({i \in 1..Len(ls) : CountedDeletion(ls[i])})]

\* lines 99-101
get_file_stats(diff_content) ==
    LET ls == split(diff_content, "\n")
    IN  [additions |-> Cardinality({i \in 1..Len(ls) : StartsWith(ls[i], <<"+">>)}),
         deletions |-> Cardinality({i \in 1..Len(ls) : StartsWith(ls[i], <<"-">>)})]

\* the two functions are about to be called on the same diff text
InitStats ==
    /\ RenderIdle
    /\ EnhancedIdle
    /\ TestsIdle
    /\ MainIdle
    /\ combined_diff \in
        {<<JoinLines(ls)>> : ls \in SeqsUpTo(StatsCatalogue, MaxStatsLines)}
    /\ stats = <<>>
    /\ file_stats = <<>>

\* lines 443-472: _generate_stats_html is called
GenerateStats ==
    /\ combined_diff # <<>>
    /\ stats = <<>>
    /\ stats' = <<total_stats(combined_diff[1])>>
    /\ UNCHANGED <<combined_diff, file_stats>>

\* lines 97-101: get_file_stats is called
GetFileStats ==
    /\ combined_diff # <<>>
    /\ file_stats = <<>>
    /\ file_stats' = <<get_file_stats(combined_diff[1])>>
    /\ UNCHANGED <<combined_diff, stats>>

NextStats ==
    \/ GenerateStats /\ UNCHANGED <<vars, evars, tvars, dvars>>
    \/ GetFileStats /\ UNCHANGED <<vars, evars, tvars, dvars>>

SpecStats == InitStats /\ [][NextStats]_<<vars, evars, xvars>>

(***************************************************************************)
(* run_tests of test_environment.py.  What a check does is the             *)
(* environment's: it returns a true value, returns a false one, or raises. *)
(***************************************************************************)

\* lines 18-24: the checks, in the order of the list
tests ==
    <<"Python Version", "Required Modules", "Script Syntax", "Git Access", "File System">>

\* line 27
total == Len(tests)

\* lines 32-34: the check that is counted
Counted_UnlessFalse(o) == o # "false"
Counted(o) == o = "true"

\* lines 33, 36, 38: what is printed for the check
Verdict(o) ==
    IF o = "true" THEN "PASSED" ELSE IF o = "false" THEN "FAILED" ELSE "ERROR"

\* lines 13-27: run_tests is entered
InitTests ==
    /\ RenderIdle
    /\ EnhancedIdle
    /\ StatsIdle
    /\ MainIdle
    /\ ran = <<>>
    /\ passed = 0
    /\ returned = <<>>

\* lines 29-38: one turn of the loop: the next check of the list is called
\* inside the try
RunTest ==
    /\ returned = <<>>
    /\ Len(ran) < total
    /\ \E o \in {"true", "false", "raises"} :
            /\ ran' = Append(ran, [name |-> tests[Len(ran) + 1], outcome |-> o,
                                   shown |-> Verdict(o)])
            /\ passed' = IF Counted(o) THEN passed + 1 ELSE passed
    /\ UNCHANGED returned

\* lines 40-47: the loop is over
ReturnResult ==
    /\ returned = <<>>
    /\ Len(ran) = total
    /\ returned' = <<passed = total>>
    /\ UNCHANGED <<ran, passed>>

NextTests ==
    \/ RunTest /\ UNCHANGED <<vars, evars, svars, dvars>>
    \/ ReturnResult /\ UNCHANGED <<vars, evars, svars, dvars>>

SpecTests == InitTests /\ [][NextTests]_<<vars, evars, xvars>>

(***************************************************************************)
(* The main program of Diff_to_HTML.py, lines 193-235: the loop over the   *)
(* changed files that builds `diffs`, one action per turn, with a repository *)
(* of two revisions: the older and the newer side of the comparison.       *)
(***************************************************************************)

\* str.endswith(p)
EndsWith(s, p) ==
    /\ Len(s) >= Len(p)
    /\ SubSeq(s, Len(s) - Len(p) + 1, Len(s)) = p

\* line 224
Supported(file_name) ==
    \/ EndsWith(file_name, <<".", "c">>)
    \/ EndsWith(file_name, <<".", "h">>)
    \/ EndsWith(file_name, <<".", "p", "y">>)

\* the f-string's text for a revision that may be None
Format(commit) == IF commit = <<>> THEN <<"N", "o", "n", "e">> ELSE commit[1]

\* line 232: commit1 + '^'
Parent(commit) == commit \o <<"^">>

\* lines 216-219: the two revisions the listing compares: commit1 and commit2
\* (git diff --name-status), or the parent of commit1 and commit1 (git
\* diff-tree)
OlderSide == IF commit2 # <<>> THEN commit1 ELSE Parent(commit1)

NewerSide == IF commit2 # <<>> THEN commit2[1] ELSE commit1

\* the file of a line of the listing is in the revision: status A names a file
\* of the newer side only, status D one of the older side only
HoldsFile(rev, status) ==
    \/ rev = NewerSide /\ status # "D"
    \/ rev = OlderSide /\ status # "A"

\* the lines of the listing: a status and a file name
ListedEntries ==
    {[status |-> st, file_name |-> n] :
        st \in {"A", "D", "M"}, n \in {<<"f", ".", "c">>, <<"r", ".", "m", "d">>}}

\* the diff of a modified file from the older side to the newer: one line
\* added after line 3; and the diff of the same file the other way round
ForwardDiff ==
    JoinLines(<<FormatHeader([oldStart |-> 3, oldCount |-> <<0>>, newStart |-> 4,
                              newCount |-> <<>>, trailer |-> <<>>]),
                PlusLine>>)

BackwardDiff ==
    JoinLines(<<FormatHeader([oldStart |-> 4, oldCount |-> <<>>, newStart |-> 3,
                              newCount |-> <<0>>, trailer |-> <<>>]),
                <<"-", "a">>>>)

\* lines 12-16: what git diff -U0 old new -- file_name writes to stdout
git_diff(old, new) ==
    IF old = OlderSide /\ new = NewerSide THEN ForwardDiff
    ELSE IF old = NewerSide /\ new = OlderSide THEN BackwardDiff
    ELSE <<>>

\* lines 23-29: git show commit:file_name: the content on stdout, or nothing
\* there and a message on stderr, which is printed
ShowSucceeds(commit, status) == commit # <<>> /\ HoldsFile(commit[1], status)

git_show_stdout(commit, status) ==
    IF ShowSucceeds(commit, status) THEN SampleContent ELSE <<>>

\* lines 21-31: the call, as it changes requests and console
get_file_content_at_commit(commit, entry) ==
    /\ requests' = Append(requests,
            [cmd |-> "show", file_name |-> entry.file_name,
             args |-> <<Format(commit) \o <<":">> \o entry.file_name>>])
    /\ console' = IF ShowSucceeds(commit, entry.status) THEN console
                  ELSE Append(console, [tag |-> "error", exc |-> "git show",
                                        arg |-> Format(commit)])

\* lines 198-221: the arguments are read, in single-commit or two-commit
\* mode, and the listing of the changed files is taken
InitMain ==
    /\ EnhancedIdle
    /\ StatsIdle
    /\ TestsIdle
    /\ oneArgument \in BOOLEAN
    /\ commit1 = <<"c", "1">>
    /\ commit2 = IF oneArgument THEN <<>> ELSE <<<<"c", "2">>>>
    /\ name_status \in SeqsUpTo(ListedEntries, MaxListed)
    /\ line_no = 1
    /\ requests = <<>>
    /\ diffs = <<>>
    /\ pc = "main"
    /\ fileIdx = 0
    /\ lines = <<>>
    /\ lineIdx = 0
    /\ difference_count = 0
    /\ function_names = {}
    /\ old_line_num = 0
    /\ new_line_num = 0
    /\ out = <<>>
    /\ console = <<>>

InMainLoop == pc = "main" /\ line_no <= Len(name_status)

\* line 223
entry == name_status[line_no]

\* lines 222-224: a file of another kind is passed over
OtherKindOfFile ==
    /\ InMainLoop
    /\ ~Supported(entry.file_name)
    /\ line_no' = line_no + 1
    /\ UNCHANGED <<commit1, commit2, name_status, requests>>
    /\ UNCHANGED vars

\* lines 225-227
AddedFile ==
    /\ InMainLoop
    /\ Supported(entry.file_name)
    /\ entry.status = "A"
    /\ get_file_content_at_commit(commit2, entry)
    /\ diffs' = Append(diffs, WholeFile(entry.file_name, "A",
                                        git_show_stdout(commit2, entry.status)))
    /\ line_no' = line_no + 1
    /\ UNCHANGED <<commit1, commit2, name_status>>
    /\ UNCHANGED <<oneArgument, pc, fileIdx, locals, out>>

\* lines 228-230
DeletedFile ==
    /\ InMainLoop
    /\ Supported(entry.file_name)
    /\ entry.status = "D"
    /\ get_file_content_at_commit(<<commit1>>, entry)
    /\ diffs' = Append(diffs, WholeFile(entry.file_name, "D",
                                        git_show_stdout(<<commit1>>, entry.status)))
    /\ line_no' = line_no + 1
    /\ UNCHANGED <<commit1, commit2, name_status>>
    /\ UNCHANGED <<oneArgument, pc, fileIdx, locals, out>>

\* line 232: the two revisions get_git_diff is given
diff_revisions == <<commit1, IF commit2 # <<>> THEN commit2[1] ELSE Parent(commit1)>>

\* lines 231-233
ChangedFile ==
    /\ InMainLoop
    /\ Supported(entry.file_name)
    /\ entry.status \notin {"A", "D"}
    /\ requests' = Append(requests,
            [cmd |-> "diff", file_name |-> entry.file_name, args |-> diff_revisions])
    /\ diffs' = Append(diffs, ModifiedFile(entry.file_name,
                                           git_diff(diff_revisions[1], diff_revisions[2])))
    /\ line_no' = line_no + 1
    /\ UNCHANGED <<commit1, commit2, name_status>>
    /\ UNCHANGED <<oneArgument, pc, fileIdx, locals, out, console>>

\* line 235: the loop is over, write_diff_to_html is called
CallWrite ==
    /\ pc = "main"
    /\ line_no > Len(name_status)
    /\ pc' = "open"
    /\ UNCHANGED dvars
    /\ UNCHANGED <<oneArgument, diffs, fileIdx, locals, out, console>>

NextMain ==
    \/ OtherKindOfFile /\ UNCHANGED <<evars, svars, tvars>>
    \/ AddedFile /\ UNCHANGED <<evars, svars, tvars>>
    \/ DeletedFile /\ UNCHANGED <<evars, svars, tvars>>
    \/ ChangedFile /\ UNCHANGED <<evars, svars, tvars>>
    \/ CallWrite /\ UNCHANGED <<evars, svars, tvars>>

SpecMain == InitMain /\ [][NextMain]_<<vars, evars, xvars>>

\* enhanced_git_diff.py lines 31-34: the two revisions GitDiffAnalyzer's
\* get_git_diff gives git diff
enhanced_diff_revisions(c1, c2) ==
    IF c2 # <<>> THEN <<c1, c2[1]>> ELSE <<Parent(c1), c1>>

(***************************************************************************)
(* The vocabulary of the claims.                                           *)
(***************************************************************************)

\* the entries of diffs that take the modified-file branch
IsModified(f) == diffs[f].file_status \notin {"A", "D"}

\* the positions in out of the table rows of file f
RowPositions(f) == {i \in 1..Len(out) : out[i].tag = "row" /\ out[i].file = f}

\* the positions in out of the boundary markers of file f
BoundaryPositions(f) == {i \in 1..Len(out) : out[i].tag = "hr" /\ out[i].file = f}

\* the items of s at the positions P, in order
RECURSIVE Pick(_, _)
Pick(s, P) ==
    IF P = {} THEN <<>>
    ELSE LET i == CHOOSE i \in P : \A j \in P : i <= j
         IN  <<s[i]>> \o Pick(s, P \ {i})

\* the table rows of file f, in the order written
RowsOf(f) == Pick(out, RowPositions(f))

\* a row with content in the Old Version column alone, in the New Version
\* column alone, in both
OldOnly(r) == r.old # <<>> /\ r.new = <<>>

NewOnly(r) == r.old = <<>> /\ r.new # <<>>

Unchanged(r) == r.old # <<>> /\ r.new # <<>>

\* a line of diff text by its leading marker
IsAddedLine(l) == l # <<>> /\ l[1] = "+"

IsRemovedLine(l) == l # <<>> /\ l[1] = "-"

IsHeaderLine(l) == Len(l) >= 2 /\ l[1] = "@" /\ l[2] = "@"

IsContextLine(l) == ~IsAddedLine(l) /\ ~IsRemovedLine(l) /\ ~IsHeaderLine(l)

\* the lines of the diff text of file f
TextLines(f) == splitlines(diffs[f].diff)

\* the positions in ls of the hunk headers
HeaderPositions(ls) == {i \in 1..Len(ls) : IsHeaderLine(ls[i])}

\* the positions in ls of the body lines: the lines after the first hunk
\* header that are not headers themselves
BodyPositions(ls) ==
    {i \in 1..Len(ls) : ~IsHeaderLine(ls[i]) /\ \E j \in HeaderPositions(ls) : j < i}

BodyLines(f) == Pick(TextLines(f), BodyPositions(TextLines(f)))

\* the preamble git writes before the first hunk: "diff --git ...",
\* "index ...", "--- <old name>", "+++ <new name>"
IsGitPreamble(l) ==
    \/ StartsWith(l, DiffGitLine)
    \/ StartsWith(l, <<"i", "n", "d", "e", "x", " ">>)
    \/ StartsWith(l, <<"-", "-", "-", " ">>)
    \/ StartsWith(l, <<"+", "+", "+", " ">>)

\* diff text as git writes it for one file: preamble lines, then hunks, every
\* header a well-formed one
GitShaped(f) ==
    LET ls == TextLines(f)
    IN  \A i \in 1..Len(ls) :
            /\ IsHeaderLine(ls[i]) => ls[i] \in HeaderLines
            /\ ~IsHeaderLine(ls[i]) /\ (\A j \in HeaderPositions(ls) : i < j)
                   => IsGitPreamble(ls[i])

Repeat(x, n) == [i \in 1..n |-> x]

\* the diff text of one hunk: its header, r removed lines, a added lines
RunsText(h, r, a) ==
    JoinLines(<<FormatHeader(h)>> \o Repeat(MinusLine, r) \o Repeat(PlusLine, a))

(***************************************************************************)
(* C1.  For a hunk whose body is a run of r removed ('-') lines followed   *)
(* by a added ('+') lines (r = 3, a = 1 in particular), the finished       *)
(* report holds r old-column-only rows numbered oldStart, oldStart+1, ...  *)
(* followed by a new-column-only rows numbered newStart, newStart+1, ...   *)
(***************************************************************************)
C1_RunsOnTheirOwnSides ==
    \A h \in HunkHeaders : \A r, a \in 0..MaxHunkLines :
        ( /\ pc = "done"
          /\ Len(diffs) = 1
          /\ IsModified(1)
          /\ diffs[1].diff = RunsText(h, r, a) )
        => /\ Len(RowsOf(1)) = r + a
           /\ \A i \in 1..r :
                /\ OldOnly(RowsOf(1)[i])
                /\ RowsOf(1)[i].old[1].no = h.oldStart + (i - 1)
           /\ \A j \in 1..a :
                /\ NewOnly(RowsOf(1)[r + j])
                /\ RowsOf(1)[r + j].new[1].no = h.newStart + (j - 1)

(***************************************************************************)
(* C2.  Every step that renders a body line with leading '+' writes one    *)
(* row with content on the new-version side only, numbered by the new-side *)
(* counter and marked as added; every step that renders a body line with   *)
(* leading '-' writes one row with content on the old-version side only,   *)
(* numbered by the old-side counter and marked as removed.                 *)
(***************************************************************************)
C2_Step ==
    ( /\ pc = "lines"
      /\ lineIdx <= Len(lines)
      /\ BoundaryPositions(fileIdx) # {}
      /\ lineIdx' = lineIdx + 1 )
    => /\ IsAddedLine(lines[lineIdx]) =>
            /\ out' = Append(out, out'[Len(out')])
            /\ NewOnly(out'[Len(out')])
            /\ out'[Len(out')].new[1].no = new_line_num
            /\ out'[Len(out')].new[1].cls = "added"
       /\ IsRemovedLine(lines[lineIdx]) =>
            /\ out' = Append(out, out'[Len(out')])
            /\ OldOnly(out'[Len(out')])
            /\ out'[Len(out')].old[1].no = old_line_num
            /\ out'[Len(out')].old[1].cls = "removed"

\* C2: every step of every run is such a step
C2_MarkersChooseTheSide == [][C2_Step]_vars

(***************************************************************************)
(* C3.  Every step that renders a context line (a line starting with none  *)
(* of '+', '-', '@@'; a blank line included) writes exactly one row, in     *)
(* both columns, with both line numbers set from the counters and the same *)
(* text on both sides, advances both counters by one and goes on with the  *)
(* next line without any error.                                            *)
(***************************************************************************)
C3_Step ==
    ( /\ pc = "lines"
      /\ lineIdx <= Len(lines)
      /\ BoundaryPositions(fileIdx) # {}
      /\ IsContextLine(lines[lineIdx]) )
    => /\ pc' = "lines"
       /\ console' = console
       /\ lineIdx' = lineIdx + 1
       /\ out' = Append(out, out'[Len(out')])
       /\ Unchanged(out'[Len(out')])
       /\ out'[Len(out')].old[1].no = old_line_num
       /\ out'[Len(out')].new[1].no = new_line_num
       /\ out'[Len(out')].old[1].text = out'[Len(out')].new[1].text
       /\ old_line_num' = old_line_num + 1
       /\ new_line_num' = new_line_num + 1

\* C3: every step of every run is such a step
C3_ContextRowOnBothSides == [][C3_Step]_vars

\* two positions of out in the same hunk: the same file, no boundary marker
\* from the one to the other
SameHunk(i, j) ==
    /\ out[i].file = out[j].file
    /\ \A k \in i..j : out[k].tag # "hr"

\* rows i < j are successive rows with a number on the old side (new side)
SuccessiveOld(i, j) ==
    /\ i < j
    /\ out[i].tag = "row" /\ out[i].old # <<>>
    /\ out[j].tag = "row" /\ out[j].old # <<>>
    /\ \A k \in (i + 1)..(j - 1) : out[k].tag = "row" => out[k].old = <<>>

SuccessiveNew(i, j) ==
    /\ i < j
    /\ out[i].tag = "row" /\ out[i].new # <<>>
    /\ out[j].tag = "row" /\ out[j].new # <<>>
    /\ \A k \in (i + 1)..(j - 1) : out[k].tag = "row" => out[k].new = <<>>

(***************************************************************************)
(* C4.  Within every hunk the old line numbers of successive rows that     *)
(* have one increase by exactly 1, and so do the new line numbers of       *)
(* successive rows that have one; and a step that writes a row with        *)
(* content on one side only changes exactly one of the two counters.       *)
(***************************************************************************)
C4_Numbers ==
    \A i, j \in 1..Len(out) :
        /\ SuccessiveOld(i, j) /\ SameHunk(i, j)
               => out[j].old[1].no = out[i].old[1].no + 1
        /\ SuccessiveNew(i, j) /\ SameHunk(i, j)
               => out[j].new[1].no = out[i].new[1].no + 1

C4_Step ==
    ( /\ Len(out') = Len(out) + 1
      /\ out'[Len(out')].tag = "row"
      /\ ~Unchanged(out'[Len(out')]) )
    => \/ old_line_num' # old_line_num /\ new_line_num' = new_line_num
       \/ old_line_num' = old_line_num /\ new_line_num' # new_line_num

\* C4: the numbers of the rows written are consecutive in every state, and
\* every step that writes a one-sided row moves one counter
C4_CountersAdvanceByOne == []C4_Numbers /\ [][C4_Step]_vars

\* C4's case: a hunk with rows old, new, old, new in this order
C4_Witness ==
    \E i, j, k, l \in 1..Len(out) :
        /\ i < j /\ j < k /\ k < l
        /\ SameHunk(i, l)
        /\ \E b \in BoundaryPositions(out[i].file) : b < i
        /\ SuccessiveOld(i, k) /\ OldOnly(out[i]) /\ OldOnly(out[k])
        /\ SuccessiveNew(j, l) /\ NewOnly(out[j]) /\ NewOnly(out[l])

\* the hunk headers among the lines the loop has gone through, in order
HeadersDone == Pick(lines, {i \in 1..(lineIdx - 1) : IsHeaderLine(lines[i])})

\* the boundary markers of the current file, in order of position
BoundariesDone == BoundaryPositions(fileIdx)

\* the position in out of the k-th boundary marker of the current file
BoundaryAt(k) ==
    CHOOSE p \in BoundariesDone : Cardinality({q \in BoundariesDone : q <= p}) = k

\* the rows of the hunk opened by the boundary marker at p
HunkRowPositions(p) ==
    {i \in (p + 1)..Len(out) : out[i].tag = "row" /\ SameHunk(p + 1, i)}

FirstOf(P) == CHOOSE i \in P : \A j \in P : i <= j

(***************************************************************************)
(* C5.  At every hunk header "@@ -a[,b] +c[,d] @@<trailer>", with or       *)
(* without the counts b and d, the old counter becomes a and the new       *)
(* counter c whatever the previous hunk left in them; the first old-side   *)
(* row of the hunk is numbered a and its first new-side row c.             *)
(***************************************************************************)
C5_HeaderSeedsCounters ==
    pc = "lines" =>
        /\ Len(HeadersDone) = Cardinality(BoundariesDone)
        /\ \A h \in HunkHeaders :
             /\ ( lineIdx > 1 /\ lines[lineIdx - 1] = FormatHeader(h) )
                    => old_line_num = h.oldStart /\ new_line_num = h.newStart
             /\ \A k \in 1..Len(HeadersDone) :
                    HeadersDone[k] = FormatHeader(h) =>
                        LET R == HunkRowPositions(BoundaryAt(k))
                            O == {i \in R : out[i].old # <<>>}
                            N == {i \in R : out[i].new # <<>>}
                        IN  /\ O # {} => out[FirstOf(O)].old[1].no = h.oldStart
                            /\ N # {} => out[FirstOf(N)].new[1].no = h.newStart

\* C5's case: the second hunk's header has reset counters the first hunk had
\* advanced, and the second hunk has a first row on each side
C5_Witness ==
    /\ pc = "lines"
    /\ Len(HeadersDone) = 2
    /\ HeadersDone[1] = FormatHeader(HeaderNoOldCount)
    /\ HeadersDone[2] = FormatHeader(HeaderNoNewCount)
    /\ HunkRowPositions(BoundaryAt(1)) # {}
    /\ \E i, j \in HunkRowPositions(BoundaryAt(2)) :
            /\ out[i].old # <<>> /\ out[i].old[1].no = 10
            /\ out[j].new # <<>> /\ out[j].new[1].no = 12

\* file f's section has been started (its title written)
SectionBegun(f) == \E p \in 1..Len(out) : out[p].tag = "h2" /\ out[p].file = f

\* file f's section has been written to its end
SectionWritten(f) ==
    \E p, q \in 1..Len(out) :
        /\ p < q
        /\ out[p].tag = "h2" /\ out[p].file = f
        /\ out[q].tag = "end_table" /\ out[q].file = f

\* the text shown by a row
RowText(r) == IF r.old # <<>> THEN r.old[1].text ELSE r.new[1].text

\* the text of a body line: without its marker for '+' and '-' lines
LineText(l) == IF IsAddedLine(l) \/ IsRemovedLine(l) THEN DropFirst(l) ELSE l

\* a occurs in l
Occurs(a, l) == \E i \in 1..(Len(l) - Len(a) + 1) : SubSeq(l, i, i + Len(a) - 1) = a

(***************************************************************************)
(* C6.  The difference count written for a modified file equals the number *)
(* of added body lines plus the number of removed body lines of its diff,  *)
(* over all hunks and whatever the text of those lines.                    *)
(***************************************************************************)
C6_DifferenceCount ==
    \A p \in 1..Len(out) :
        ( out[p].tag = "count" /\ GitShaped(out[p].file) ) =>
            LET ls == TextLines(out[p].file)
            IN  out[p].n =
                    Cardinality({i \in BodyPositions(ls) :
                                    IsAddedLine(ls[i]) \/ IsRemovedLine(ls[i])})

(***************************************************************************)
(* C7.  When a run has ended without error, the rows of every modified     *)
(* file correspond one to one and in order to the body lines of its diff   *)
(* text: as many rows as body lines, the i-th row showing the text of the  *)
(* i-th body line.                                                         *)
(***************************************************************************)
C7_OneRowPerBodyLine ==
    ( pc = "done" /\ console = <<>> ) =>
        \A f \in 1..Len(diffs) :
            ( IsModified(f) /\ GitShaped(f) ) =>
                /\ Len(RowsOf(f)) = Len(BodyLines(f))
                /\ \A i \in 1..Len(RowsOf(f)) :
                        i <= Len(BodyLines(f)) =>
                            RowText(RowsOf(f)[i]) = escape(LineText(BodyLines(f)[i]))

\* the loop reaches a malformed header in file f: the file's section was
\* begun, and the text is hunks of '+' and '-' lines under well-formed headers
\* down to the header "@@ -x,2 +10,2 @@"
ReachesBadHeader(f) ==
    /\ IsModified(f)
    /\ SectionBegun(f)
    /\ \E i \in 1..Len(TextLines(f)) :
            /\ TextLines(f)[i] = BadHeaderLine
            /\ i > 1 => TextLines(f)[1] \in HeaderLines
            /\ \A j \in 1..(i - 1) :
                    \/ TextLines(f)[j] \in HeaderLines
                    \/ IsAddedLine(TextLines(f)[j])
                    \/ IsRemovedLine(TextLines(f)[j])

(***************************************************************************)
(* C8.  When the rendering of a file has come to a '@@' line whose start   *)
(* fields are not numeric, the run ends with an error reported that quotes *)
(* text of the offending line, and no row of that file is in the output.   *)
(***************************************************************************)
C8_MalformedHeaderAborts ==
    pc = "done" =>
        \A f \in 1..Len(diffs) :
            ReachesBadHeader(f) =>
                /\ \E k \in 1..Len(console) :
                        /\ console[k].tag = "error"
                        /\ console[k].arg # <<>>
                        /\ Occurs(console[k].arg, BadHeaderLine)
                /\ RowPositions(f) = {}

(***************************************************************************)
(* C9.  When a run over several files has ended, the section of every file *)
(* other than the one whose rendering raised an error has been written.    *)
(***************************************************************************)
C9_OtherFilesStillRendered ==
    pc = "done" =>
        \A g \in 1..Len(diffs) :
            ( console # <<>> => g # fileIdx ) => SectionWritten(g)

\* the diff text of file f has a body line before any hunk header: a line
\* that is neither a header nor a line of the preamble, with no header above
BodyBeforeHeader(f) ==
    \E i \in 1..Len(TextLines(f)) :
        /\ ~IsHeaderLine(TextLines(f)[i])
        /\ ~IsGitPreamble(TextLines(f)[i])
        /\ \A j \in HeaderPositions(TextLines(f)) : i < j

(***************************************************************************)
(* C10.  No row of a modified file is written before a boundary marker of  *)
(* that file (a row numbered from counters no header has seeded), and a    *)
(* run that has met a body line before any header ends with a              *)
(* MissingHunkHeader error reported.                                       *)
(***************************************************************************)
C10_BodyLineNeedsHeader ==
    /\ \A i \in 1..Len(out) :
            out[i].tag = "row" => \E b \in BoundaryPositions(out[i].file) : b < i
    /\ pc = "done" =>
            \A f \in 1..Len(diffs) :
                ( IsModified(f) /\ SectionBegun(f) /\ BodyBeforeHeader(f) ) =>
                    \E k \in 1..Len(console) : console[k].exc = "MissingHunkHeader"

\* the numbered content lines written for file f, in the order written
ContentLinesOf(f) ==
    Pick(out, {i \in 1..Len(out) : out[i].tag = "line" /\ out[i].file = f})

\* the block headings written for file f
BlocksOf(f) ==
    Pick(out, {i \in 1..Len(out) : out[i].tag = "block" /\ out[i].file = f})

(***************************************************************************)
(* C11.  In either mode, the finished section of a file of status A is one *)
(* block of added rows in the New Version column, that of a file of status *)
(* D one block of removed rows in the Old Version column; the block has    *)
(* one row per line of the file content, numbered 1, 2, ..., n in order,   *)
(* and the section has no hunk rows and no boundary markers.               *)
(***************************************************************************)
C11_WholeFileBlocks ==
    \A f \in 1..Len(diffs) :
        ( ~IsModified(f) /\ SectionWritten(f) ) =>
            LET added == diffs[f].file_status = "A"
                n == Len(splitlines(diffs[f].file_content))
            IN  /\ Len(BlocksOf(f)) = 1
                /\ BlocksOf(f)[1].column = (IF added THEN "New Version" ELSE "Old Version")
                /\ BlocksOf(f)[1].cls = (IF added THEN "added" ELSE "removed")
                /\ Len(ContentLinesOf(f)) = n
                /\ \A i \in 1..n :
                        /\ ContentLinesOf(f)[i].no = i
                        /\ ContentLinesOf(f)[i].cls = (IF added THEN "added" ELSE "removed")
                /\ RowPositions(f) = {}
                /\ BoundaryPositions(f) = {}

\* an item of out that is a marker or a row of file f
InStream(x, f) == x.tag \in {"hr", "row"} /\ x.file = f

\* the markers and rows of file f by their tags, in the order written
StreamOf(f) ==
    LET items == SelectSeq(out, LAMBDA x : InStream(x, f))
    IN  [i \in 1..Len(items) |-> items[i].tag]

\* the lines of file f's diff text that are rendered: all but the lines with
\* a prefix of the preamble
RenderedLines(f) == SelectSeq(TextLines(f), LAMBDA l : ~IsGitPreamble(l))

(***************************************************************************)
(* C12 as stated.  In the finished section of a modified file with n >= 1  *)
(* hunks there are n - 1 boundary markers, no marker before the first row  *)
(* and none after the last row.                                            *)
(***************************************************************************)
C12_MarkersOnlyBetweenHunks ==
    \A f \in 1..Len(diffs) :
        ( /\ IsModified(f)
          /\ SectionWritten(f)
          /\ GitShaped(f)
          /\ HeaderPositions(TextLines(f)) # {} )
        => /\ Cardinality(BoundaryPositions(f))
                = Cardinality(HeaderPositions(TextLines(f))) - 1
           /\ \A b \in BoundaryPositions(f) :
                /\ \E r \in RowPositions(f) : r < b
                /\ \E r \in RowPositions(f) : b < r

(***************************************************************************)
(* C12 amended.  A boundary marker is written at every hunk header, where  *)
(* the header stands among the rendered lines: in the finished section of  *)
(* a modified file the markers and rows follow the rendered lines of the   *)
(* diff text one for one, a marker for each header and a row for each      *)
(* other line.  n hunks give n markers: one before the rows of each hunk,  *)
(* the first hunk included, and so one between the rows of hunk i and the  *)
(* rows of hunk i+1.                                                       *)
(***************************************************************************)
C12_MarkerAtEveryHeader ==
    \A f \in 1..Len(diffs) :
        ( IsModified(f) /\ SectionWritten(f) ) =>
            LET rendered == RenderedLines(f)
            IN  /\ StreamOf(f) = [i \in 1..Len(rendered) |->
                                    IF IsHeaderLine(rendered[i]) THEN "hr" ELSE "row"]
                /\ Cardinality(BoundaryPositions(f))
                        = Cardinality(HeaderPositions(TextLines(f)))

\* C12's case: a finished section with two hunks that both have rows
C12_Witness ==
    \E f \in 1..Len(diffs) :
        /\ IsModified(f)
        /\ SectionWritten(f)
        /\ GitShaped(f)
        /\ StreamOf(f) = <<"hr", "row", "hr", "row">>

\* the name a header trailer of the form "def NAME" or "function NAME"
\* carries: <<NAME>>, or <<>> for any other trailer
TrailerName(t) ==
    LET u == lstrip(t)
        kw == IF StartsWith(u, <<"d", "e", "f">>) THEN 3
              ELSE IF StartsWith(u, <<"f", "u", "n", "c", "t", "i", "o", "n">>) THEN 8
              ELSE 0
        rest == SubSeq(u, kw + 1, Len(u))
        name == TakeWhile(lstrip(rest), IdentChar)
    IN  IF /\ kw > 0
           /\ rest # <<>> /\ IsSpace(rest[1])
           /\ name # <<>> /\ name[1] \in IdentStart
        THEN <<name>>
        ELSE <<>>

\* the names carried by the trailers of the hunk headers of file f
TrailerNames(f) ==
    {TrailerName(h.trailer)[1] :
        h \in {g \in HunkHeaders :
                /\ TrailerName(g.trailer) # <<>>
                /\ \E i \in 1..Len(TextLines(f)) : TextLines(f)[i] = FormatHeader(g)}}

(***************************************************************************)
(* C13.  The function names written for a modified file are exactly the    *)
(* names carried by the trailers of its hunk headers: every trailer        *)
(* "def NAME" or "function NAME" gives NAME, once, and nothing else is in  *)
(* the set; it is empty when no header has such a trailer.                 *)
(***************************************************************************)
C13_NamesOfHeaderTrailers ==
    \A p \in 1..Len(out) :
        ( out[p].tag = "funcs" /\ GitShaped(out[p].file) ) =>
            out[p].names = TrailerNames(out[p].file)

\* the items with tag t written for file f
ItemsOf(f, t) == {out[i] : i \in {j \in 1..Len(out) : out[j].tag = t /\ out[j].file = f}}

\* the run was ended by an exception raised in the section of file f
RaisedIn(f) == pc = "done" /\ fileIdx = f /\ console # <<>>

(***************************************************************************)
(* C14.  For a modified file whose diff text is empty, rendering writes no *)
(* rows and no boundary markers, a difference count of 0 and an empty set  *)
(* of function names, raises no error and goes on to the end of the        *)
(* section.                                                                *)
(***************************************************************************)
C14_EmptyDiff ==
    \A f \in 1..Len(diffs) :
        ( IsModified(f) /\ diffs[f].diff = <<>> /\ SectionBegun(f) ) =>
            /\ RowPositions(f) = {}
            /\ BoundaryPositions(f) = {}
            /\ \A c \in ItemsOf(f, "count") : c.n = 0
            /\ \A c \in ItemsOf(f, "funcs") : c.names = {}
            /\ ItemsOf(f, "count") # {} /\ ItemsOf(f, "funcs") # {}
            /\ ~RaisedIn(f)
            /\ fileIdx # f => SectionWritten(f)

\* C14's case: the run is over and the section of a file with empty diff text
\* is in the report
C14_Witness ==
    /\ pc = "done"
    /\ \E f \in 1..Len(diffs) :
            IsModified(f) /\ diffs[f].diff = <<>> /\ SectionWritten(f)

(***************************************************************************)
(* C15.  For the pure insertion "@@ -0,0 +1,5 @@" with five '+' lines the  *)
(* finished report holds five rows, all with content in the New Version    *)
(* column alone, numbered 1, 2, 3, 4, 5; no row has an old-side number.    *)
(***************************************************************************)
C15_PureInsertion ==
    \A f \in 1..Len(diffs) :
        ( /\ pc = "done"
          /\ IsModified(f)
          /\ diffs[f].diff = PureInsertionText )
        => /\ Len(RowsOf(f)) = 5
           /\ \A i \in 1..5 :
                /\ NewOnly(RowsOf(f)[i])
                /\ RowsOf(f)[i].new[1].no = i

(***************************************************************************)
(* C16.  The two modes render the diff text of a modified file alike: in   *)
(* every step of a section of a modified file, the code of the             *)
(* single-commit branch and the code of the two-commit branch write the    *)
(* same items (count, function names, markers, rows with their numbers)    *)
(* and leave the same counters, whichever of the two modes the run is in.  *)
(* From the same diff text the two modes so go through the same states.    *)
(***************************************************************************)
C16_Step ==
    /\ BeginModified <=> BeginModifiedTwo
    /\ HunkHeaderLine <=> HunkHeaderLineTwo
    /\ PlusPrefixedLine <=> PlusPrefixedLineTwo
    /\ MinusPrefixedLine <=> MinusPrefixedLineTwo
    /\ OtherLine <=> OtherLineTwo
    /\ EndModified <=> EndModifiedTwo

\* C16: every step of every run is such a step
C16_ModesRenderAlike == [][C16_Step]_vars

\* C16's case: a run in two-commit mode has written the section of a modified
\* file with a count above 0, a marker and a row on each side
C16_Witness ==
    /\ ~oneArgument
    /\ \E f \in 1..Len(diffs) :
            /\ IsModified(f)
            /\ SectionWritten(f)
            /\ BoundaryPositions(f) # {}
            /\ \E c \in ItemsOf(f, "count") : c.n >= 2
            /\ \E i, j \in RowPositions(f) : OldOnly(out[i]) /\ NewOnly(out[j])

(***************************************************************************)
(* The vocabulary of the claims about enhanced_git_diff.py.                *)
(***************************************************************************)

\* the names listed under 'selectedFiles' in a selection file
ListedNames(c) ==
    IF c.selectedFiles = <<>> THEN {}
    ELSE {c.selectedFiles[1][i] : i \in 1..Len(c.selectedFiles[1])}

\* a selection file that can be read: a JSON object
IsReadable(c) == c.kind = "object"

\* show_file_selector is in its loop, before the timeout, with a file to read
FileSeenInTime == mpc = "poll" /\ now - start_time < timeout * TicksPerSecond /\ selection # <<>>

(***************************************************************************)
(* C17.  When the loop of show_file_selector finds a readable              *)
(* selected_files.json before the timeout, the function returns in that    *)
(* step, the list returned is made of exactly the entries of changed_files *)
(* whose filename is listed under 'selectedFiles', in the order they have  *)
(* in changed_files, and the selection file is gone.                       *)
(***************************************************************************)
C17_Step ==
    ( FileSeenInTime /\ IsReadable(selection[1]) )
    => /\ mpc' = "selected"
       /\ selected_files'
            = Pick(changed_files,
                   {i \in 1..Len(changed_files) :
                        changed_files[i].filename \in ListedNames(selection[1])})
       /\ selection' = <<>>

\* C17: every step of every run is such a step
C17_ReturnsTheListedFiles == [][C17_Step]_<<vars, evars>>

\* C17's case: the function has returned one of two changed files, the one
\* the file listed, and not by timeout
C17_Witness ==
    /\ mpc = "selected"
    /\ Len(changed_files) = 2
    /\ Len(selected_files) = 1
    /\ selection = <<>>
    /\ \A i \in 1..Len(printed) : printed[i] # "selection timeout"

\* show_file_selector has left its loop without a selection: the timeout
\* has passed, or reading the file failed
GaveUpWaiting ==
    /\ mpc = "poll"
    /\ \/ now - start_time >= timeout * TicksPerSecond
       \/ selection # <<>> /\ ~IsReadable(selection[1])

(***************************************************************************)
(* C18.  The polling loop of show_file_selector ends in every run.  The    *)
(* step of the program that finds a selection file before the timeout is   *)
(* the return of the function; when the timeout has passed with no file    *)
(* read, or the file found cannot be read, the next step of the program is *)
(* the return of the function with the whole of changed_files, unchanged.  *)
(***************************************************************************)
C18_Step ==
    MainStep =>
        /\ FileSeenInTime => mpc' = "selected"
        /\ GaveUpWaiting =>
                /\ mpc' = "selected"
                /\ selected_files' = changed_files
                /\ changed_files' = changed_files

C18_PollingEnds ==
    /\ (mpc = "poll") ~> (mpc = "selected")
    /\ [][C18_Step]_<<vars, evars>>

\* C18's case: the function has returned after the whole timeout with no
\* selection file
C18_Witness ==
    /\ mpc = "selected"
    /\ now - start_time >= timeout * TicksPerSecond
    /\ selection = <<>>
    /\ selected_files = changed_files
    /\ \E i \in 1..Len(printed) : printed[i] = "selection timeout"

\* the file selector has been opened in this run
SelectorOpened == \E i \in 1..Len(printed) : printed[i] = "opening file selector"

\* main has got the list of changed files and gone on from it
PastChangedFiles == mpc \in {"poll", "selected", "build", "report"} \/ (mpc = "done" /\ changed_files # <<>>)

\* the filenames of a list of entries, in order
NamesOf(files) == [i \in 1..Len(files) |-> files[i].filename]

(***************************************************************************)
(* C19.  main opens the file selector exactly when more than one           *)
(* supported file changed.  A report is written once at most, from the     *)
(* selected files and the diffs of those files alone, in their order: the  *)
(* files the selector returned, or the one changed file when the selector  *)
(* was not opened.  No report directory and no report file exists when the *)
(* selection is empty, when no supported file changed, when the            *)
(* information of a commit given is missing, or when the diff is empty.    *)
(***************************************************************************)
C19_SelectorAndReport ==
    /\ PastChangedFiles => (SelectorOpened <=> Len(changed_files) > 1)
    /\ ~PastChangedFiles => ~SelectorOpened
    /\ Len(calls) <= 1
    /\ \A d \in DOMAIN reports :
            /\ reports[d].files = selected_files
            /\ ~SelectorOpened => selected_files = changed_files /\ Len(changed_files) = 1
            /\ reports[d].diff # <<>>
            /\ \E P \in SUBSET (1..Len(selected_files)) :
                    reports[d].diff = Pick(NamesOf(selected_files), P)
    /\ ( \/ selected_files = <<>>
         \/ changed_files = <<>>
         \/ commit1_info = <<>>
         \/ actual_commit2 # <<>> /\ commit2_info = <<>>
         \/ main_diff = <<>> )
       => reports = <<>>

\* C19's case: a run is over that opened the selector and wrote its report
\* from one selected file of two changed files
C19_Witness ==
    /\ mpc = "done"
    /\ SelectorOpened
    /\ Len(changed_files) = 2
    /\ \E d \in DOMAIN reports :
            Len(reports[d].files) = 1 /\ reports[d].diff = NamesOf(reports[d].files)

(***************************************************************************)
(* C20.  Every call of create_html_report writes into a directory that no  *)
(* earlier call on the same output_dir wrote into, and leaves every        *)
(* diff_report.html written before as it was -- also when the calls fall   *)
(* in the same second of the clock.                                        *)
(***************************************************************************)
C20_Step ==
    calls' # calls =>
        /\ \A k \in 1..Len(calls) : calls[k].dir # calls'[Len(calls')].dir
        /\ \A d \in DOMAIN reports : d \in DOMAIN reports' /\ reports'[d] = reports[d]

\* C20: every step of every run is such a step
C20_UniqueReportDirectory == [][C20_Step]_<<vars, evars>>

(***************************************************************************)
(* C21.  For a diff text as git writes it, the totals of                   *)
(* _generate_stats_html are: Additions, the hunk body lines that begin     *)
(* with "+"; Deletions, the hunk body lines that begin with "-"; Files     *)
(* Changed, the per-file sections; the "+++" and "---" file header lines   *)
(* are in neither count; and get_file_stats, on the same text, gives the   *)
(* same additions and deletions.                                           *)
(***************************************************************************)

\* the lines of the diff text of the statistics
StatsLines == splitlines(combined_diff[1])

\* line i opens a file's section
OpensSection(ls, i) == StartsWith(ls[i], DiffGitLine)

\* line i lies in the body of a hunk: a hunk header precedes it in its section
\* with no other header between
InHunkBody(ls, i) ==
    \E j \in 1..(i - 1) :
        /\ IsHeaderLine(ls[j])
        /\ \A k \in (j + 1)..i : ~IsHeaderLine(ls[k]) /\ ~OpensSection(ls, k)

\* the text is a sequence of sections, each its first line, the two file
\* header lines and one or more hunks of a header and one or more body lines
SectionsShaped(ls) ==
    /\ ls # <<>>
    /\ OpensSection(ls, 1)
    /\ \A i \in 1..Len(ls) :
        /\ OpensSection(ls, i) =>
            /\ i + 3 <= Len(ls)
            /\ ls[i + 1] = MinusDashLine
            /\ ls[i + 2] = PlusPlusLine
            /\ IsHeaderLine(ls[i + 3])
        /\ IsHeaderLine(ls[i]) => i + 1 <= Len(ls) /\ InHunkBody(ls, i + 1)
        /\ ( ~OpensSection(ls, i) /\ ~IsHeaderLine(ls[i]) /\ ~InHunkBody(ls, i) ) =>
            \E d \in {i - 1, i - 2} : d >= 1 /\ OpensSection(ls, d)

BodyCount(ls, c) ==
    Cardinality({i \in 1..Len(ls) : InHunkBody(ls, i) /\ StartsWith(ls[i], <<c>>)})

\* C21: once both functions have returned on a text of that shape
C21_StatsCountBodyLines ==
    ( stats # <<>> /\ file_stats # <<>> /\ SectionsShaped(StatsLines) ) =>
        /\ stats[1].additions = BodyCount(StatsLines, "+")
        /\ stats[1].deletions = BodyCount(StatsLines, "-")
        /\ stats[1].files = Cardinality({i \in 1..Len(StatsLines) : OpensSection(StatsLines, i)})
        /\ file_stats[1].additions = stats[1].additions
        /\ file_stats[1].deletions = stats[1].deletions

(***************************************************************************)
(* C22.  run_tests calls the five checks in the order of the list,         *)
(* whatever an earlier check returned or raised; a check that raises is    *)
(* not counted as passed; passed never exceeds the total; and run_tests    *)
(* returns True exactly when every check returned a true value.            *)
(***************************************************************************)
C22_AllChecksRunAndCounted ==
    /\ \A k \in 1..Len(ran) : ran[k].name = tests[k]
    /\ passed = Cardinality({k \in 1..Len(ran) : ran[k].outcome = "true"})
    /\ passed <= total
    /\ returned # <<>> =>
        /\ Len(ran) = 5
        /\ returned[1] <=> \A k \in 1..Len(ran) : ran[k].outcome = "true"

\* C22's case: run_tests has returned after its first check raised, its
\* second returned False and the other three passed
C22_Witness ==
    /\ returned = <<FALSE>>
    /\ ran[1].outcome = "raises"
    /\ ran[2].outcome = "false"
    /\ passed = 3

(***************************************************************************)
(* C23.  In single-commit mode the diff of a modified file is requested    *)
(* with the parent of the commit as the old side and the commit as the new *)
(* side, the same two revisions in the same order as enhanced_git_diff.py  *)
(* gives git; the diff text is then the one from the parent to the commit, *)
(* whose "+" lines are lines of the commit.                                *)
(***************************************************************************)
C23_ParentIsTheOldSide ==
    oneArgument =>
        /\ \A k \in 1..Len(requests) :
            requests[k].cmd = "diff" =>
                /\ requests[k].args = <<Parent(commit1), commit1>>
                /\ requests[k].args = enhanced_diff_revisions(commit1, commit2)
        /\ \A f \in 1..Len(diffs) : diffs[f].file_status = "" => diffs[f].diff = ForwardDiff

(***************************************************************************)
(* C24.  In either mode the content of a file of status A is requested at  *)
(* the newer side of the comparison and the content of a file of status D  *)
(* at the older side, revisions that hold the file; no request names the   *)
(* revision None.                                                          *)
(***************************************************************************)

\* the request of the content of file_name at the revision
ShowAt(rev, file_name) ==
    [cmd |-> "show", file_name |-> file_name, args |-> <<rev \o <<":">> \o file_name>>]

C24_ContentAtRevisionWithFile ==
    \A k \in 1..Len(requests) :
        /\ diffs[k].file_status = "A" =>
            requests[k] = ShowAt(NewerSide, diffs[k].file_name)
        /\ diffs[k].file_status = "D" =>
            requests[k] = ShowAt(OlderSide, diffs[k].file_name)
        /\ requests[k].cmd = "show" => ~StartsWith(requests[k].args[1], Format(<<>>))

(***************************************************************************)
(* C25.  The closing message, that the differences were written to         *)
(* combined_diff.html, is printed only when write_diff_to_html wrote the   *)
(* whole document, through its closing tags: no run leaves a report cut    *)
(* short by an exception and prints that message.                          *)
(***************************************************************************)
C25_SuccessOnlyForWholeReport ==
    ( \E k \in 1..Len(console) : console[k].tag = "written" ) =>
        /\ out # <<>>
        /\ out[Len(out)].tag = "tail"
        /\ \A k \in 1..Len(console) : console[k].tag # "error"

(***************************************************************************)
(* C26.  The selection show_file_selector returns was saved after the      *)
(* selector page of this call was opened: a selected_files.json that lay   *)
(* in the Downloads folder before the call is never read as the selection  *)
(* of this run.                                                            *)
(***************************************************************************)

\* the step of show_file_selector that reads the file, removes it and returns
\* what it lists
TakesSelection ==
    /\ mpc = "poll"
    /\ mpc' = "selected"
    /\ selection # <<>>
    /\ IsReadable(selection[1])
    /\ selection' = <<>>

C26_Step == TakesSelection => selection[1].saved = "during the call"

\* C26: every step of every run is such a step
C26_SelectionSavedDuringCall == [][C26_Step]_<<vars, evars>>

====
